---- MODULE Spec2Model ----
(***************************************************************************)
(* Chunked voxel world: streaming (InfiniteWorld), chunk meshing (Chunk)   *)
(* and frustum culling (Frustum) of t3t1nha/Voxels.                        *)
(*                                                                         *)
(* The chunk extents and the render distance are scaled down so that the   *)
(* voxel grids and the greedy mesher can be enumerated; the source has     *)
(* CHUNK_SIZE = 16, CHUNK_HEIGHT = 64, RENDER_DISTANCE = 4 (Common.h).     *)
(* Every operator reads the extents through these three names only. The    *)
(* mask of generateFacesForDirection has CHUNK_SIZE * CHUNK_HEIGHT cells    *)
(* and the Y layers use CHUNK_SIZE * CHUNK_SIZE of them, so the scaled      *)
(* height is kept no smaller than the scaled size, as in the source.        *)
(***************************************************************************)
EXTENDS Integers, Sequences, FiniteSets, TLC

CHUNK_SIZE == 3
CHUNK_HEIGHT == 3
RENDER_DISTANCE == 1

\* enum VoxelType
AIR == 0
STONE == 1
GRASS == 2
DIRT == 3
SAND == 4
WATER == 5
SNOW == 6
LOG == 7
LEAVES == 8

VoxelType == AIR..LEAVES

\* Number of world seeds tried (GLOBAL_SEED = rd() in main).
MaxSeed == 0
\* Number of setVoxel calls that reach the grid write in one behaviour.
MaxEdits == 1
\* Height of the grid when generateTerrain is examined column by column: the
\* trunk and the canopy of a tree take six cells above the column, and the
\* sea level of the fill is 15.
TerrainHeight == 17

VARIABLES
    chunks,           \* InfiniteWorld::chunks, ChunkCoord -> Chunk*
    heap,             \* the live Chunk objects, Chunk* -> Chunk
    lastPlayerChunk,  \* InfiniteWorld::lastPlayerChunk
    frustum,          \* InfiniteWorld::frustum, the six planes
    GLOBAL_SEED,      \* the world seed
    last,             \* the call that ran last, its arguments and its result
    nEdits            \* setVoxel calls that wrote a cell so far

vars == <<chunks, heap, lastPlayerChunk, frustum, GLOBAL_SEED, last, nEdits>>

-----------------------------------------------------------------------------
(* Arithmetic of the build: int is 32 bit, float is IEEE-754 binary32.      *)

Abs(n) == IF n < 0 THEN -n ELSE n

Max(a, b) == IF a > b THEN a ELSE b

Min(a, b) == IF a < b THEN a ELSE b

\* Sequencing: the value of e is computed once and handed to F.
Then(e, F(_)) == CHOOSE r \in { F(x) : x \in {e} } : TRUE

\* 2^24: every int of magnitude up to this is a float.
FloatExact == 16777216

\* Distance between neighbouring floats at magnitude a.
RECURSIVE FloatSpacing(_)
FloatSpacing(a) == IF a < FloatExact THEN 1 ELSE 2 * FloatSpacing(a \div 2)

\* (float)n for an int n: round to nearest, ties to even significand.
ToFloat(n) ==
    LET a == Abs(n)
        s == FloatSpacing(a)
        lo == a - (a % s)
        r == a % s
        up == lo + s
        m == IF 2 * r < s THEN lo
             ELSE IF 2 * r > s THEN up
             ELSE IF (lo \div s) % 2 = 0 THEN lo ELSE up
    IN  IF n < 0 THEN -m ELSE m

\* (int)floor((float)w / CHUNK_SIZE). The float division is exact for a
\* power-of-two CHUNK_SIZE (16 in the source). For CHUNK_SIZE = 3 and the
\* magnitudes of the model (|w| < 3 * 2^23, so the quotient is below 2^23
\* and is rounded to a multiple of 1/2 or finer) the rounded quotient has
\* the integer part of the exact one.
FloorDivChunk(w) == ToFloat(w) \div CHUNK_SIZE

-----------------------------------------------------------------------------
(* Common.h                                                                 *)

\* struct ChunkCoord
ChunkCoord(x, z) == [x |-> x, z |-> z]

\* struct Voxel: Voxel() and Voxel(VoxelType t)
Voxel(t) == [type |-> t, isActive |-> (t # AIR)]

Cells == (0..(CHUNK_SIZE - 1)) \X (0..(CHUNK_HEIGHT - 1)) \X (0..(CHUNK_SIZE - 1))

InChunk(x, y, z) ==
    ~(x < 0 \/ x >= CHUNK_SIZE \/ y < 0 \/ y >= CHUNK_HEIGHT \/ z < 0 \/ z >= CHUNK_SIZE)

\* Camera::getCurrentChunkCoord for a camera at float position (px, pz).
getCurrentChunkCoord(px, pz) == ChunkCoord(px \div CHUNK_SIZE, pz \div CHUNK_SIZE)

\* The first world column past the exact float range that (float) moves
\* into the next chunk, and the chunk that owns it.
FarColumn ==
    CHOOSE w \in FloatExact..(FloatExact + 8 * CHUNK_SIZE) :
        /\ FloorDivChunk(w) # w \div CHUNK_SIZE
        /\ \A w1 \in FloatExact..(w - 1) : FloorDivChunk(w1) = w1 \div CHUNK_SIZE

FarChunkX == FarColumn \div CHUNK_SIZE

\* Camera positions <<x, z>>: in chunk (0, 0), in chunk (0, -1), and far
\* enough down z that the row at z = -(RENDER_DISTANCE + 1) is the last kept.
CamPositions == { <<0, 0>>, <<0, -1>>, <<0, -(2 * RENDER_DISTANCE + 3) * CHUNK_SIZE>> }

\* Coordinates passed to getChunk / loadChunk directly: the far chunk, and
\* the chunk behind the row at z = -(RENDER_DISTANCE + 1).
GetCoords == { ChunkCoord(FarChunkX, 0), ChunkCoord(0, -(RENDER_DISTANCE + 2)) }

-----------------------------------------------------------------------------
(* Noise.cpp                                                                *)
(* Noise values are fixed point. A coordinate x of the float functions is   *)
(* the quotient xNum / den of two ints (worldX * 0.001f is worldX / 1000).  *)

\* Cell values are carried in NoiseOne-ths.
NoiseOne == 4

\* smoothNoise and interpolatedNoise values are carried in SmoothOne-ths.
SmoothOne == 16 * NoiseOne

\* perlinNoise values are carried in PerlinOne-ths.
PerlinOne == 8 * SmoothOne

\* noise(x, z, seed): n = x + z * 57 + seed * 131, then a bit mix of n scaled
\* into [-1, 1]. The mix is replaced by a residue of n with the same range.
noise(x, z, seed) ==
    LET n == x + z * 57 + seed * 131
    IN  (((n % 9) * 4 + (n \div 9) * 7) % (2 * NoiseOne + 1)) - NoiseOne

\* smoothNoise: corners / 16 + sides / 8 + center / 4
smoothNoise(x, z, seed) ==
    LET corners == noise(x - 1, z - 1, seed) + noise(x + 1, z - 1, seed)
                   + noise(x - 1, z + 1, seed) + noise(x + 1, z + 1, seed)
        sides == noise(x - 1, z, seed) + noise(x + 1, z, seed)
                 + noise(x, z - 1, seed) + noise(x, z + 1, seed)
        center == noise(x, z, seed)
    IN  corners + 2 * sides + 4 * center

\* (int)x of a float x = xNum / den: the quotient truncated toward zero.
TruncDiv(a, b) == IF a >= 0 THEN a \div b ELSE -((-a) \div b)

\* a % b of C++: the remainder takes the sign of a.
CRem(a, b) == a - b * TruncDiv(a, b)

\* The cell and the fraction interpolatedNoise takes from a coordinate:
\* intX = (int)x, fracX = x - intX (in den-ths).
IntPart(xNum, den) == TruncDiv(xNum, den)

FracPart(xNum, den) == xNum - IntPart(xNum, den) * den

\* interpolatedNoise: bilinear blend of smoothNoise at the cells (intX, intZ),
\* (intX + 1, intZ), (intX, intZ + 1), (intX + 1, intZ + 1); the blend is
\* rounded to the nearest SmoothOne-th.
interpolatedNoise(xNum, zNum, den, seed) ==
    LET intX == IntPart(xNum, den)
        fracX == FracPart(xNum, den)
        intZ == IntPart(zNum, den)
        fracZ == FracPart(zNum, den)
        v1 == smoothNoise(intX, intZ, seed)
        v2 == smoothNoise(intX + 1, intZ, seed)
        v3 == smoothNoise(intX, intZ + 1, seed)
        v4 == smoothNoise(intX + 1, intZ + 1, seed)
        i1 == v1 * (den - fracX) + v2 * fracX
        i2 == v3 * (den - fracX) + v4 * fracX
        blend == i1 * (den - fracZ) + i2 * fracZ
    IN  (2 * blend + den * den) \div (2 * den * den)

\* The loop of perlinNoise over the four octaves: total += sample * amplitude
\* with amplitude 1, 1/2, 1/4, 1/8; samples in SmoothOne-ths, total in
\* PerlinOne-ths.
OctaveSum(samples) == 8 * samples[0] + 4 * samples[1] + 2 * samples[2] + samples[3]

\* perlinNoise: octave i samples interpolatedNoise at x * 2^i, z * 2^i.
perlinNoise(xNum, zNum, den, seed) ==
    OctaveSum([i \in 0..3 |-> interpolatedNoise(xNum * (2 ^ i), zNum * (2 ^ i), den, seed)])

-----------------------------------------------------------------------------
(* Chunk::generateTerrain                                                   *)

\* Biome biomes[] of generateTerrain
biomes == <<
    [name |-> "Plains",    surface |-> GRASS, subsurface |-> DIRT,  filler |-> STONE,
     baseHeight |-> 20, heightVariation |-> 4],
    [name |-> "Mountains", surface |-> SNOW,  subsurface |-> GRASS, filler |-> STONE,
     baseHeight |-> 32, heightVariation |-> 18],
    [name |-> "Desert",    surface |-> SAND,  subsurface |-> SAND,  filler |-> STONE,
     baseHeight |-> 18, heightVariation |-> 2],
    [name |-> "Forest",    surface |-> GRASS, subsurface |-> DIRT,  filler |-> STONE,
     baseHeight |-> 22, heightVariation |-> 5] >>

biomeCount == Len(biomes)

\* int((biomeNoise + 1.0f) * 0.5f * biomeCount) % biomeCount
biomeIndex(biomeNoise) ==
    CRem(TruncDiv((biomeNoise + PerlinOne) * biomeCount, 2 * PerlinOne), biomeCount)

\* int(baseHeight + heightVariation * heightNoise), clamped to [1, tall - 1]
\* for a grid of height tall (CHUNK_HEIGHT).
columnHeight(biome, heightNoise, tall) ==
    LET height == TruncDiv(biome.baseHeight * PerlinOne + biome.heightVariation * heightNoise,
                           PerlinOne)
    IN  Max(1, Min(tall - 1, height))

\* The fill putting WATER above a SAND surface as well.
columnFillWetSand(biome, height, y) ==
    IF y < height - 5 THEN Voxel(biome.filler)
    ELSE IF y < height - 1 THEN Voxel(biome.subsurface)
    ELSE IF y < height THEN Voxel(biome.surface)
    ELSE IF y < 15 THEN Voxel(WATER)
    ELSE Voxel(AIR)

\* The per-column fill of generateTerrain.
columnFill(biome, height, y) ==
    IF y < height - 5 THEN Voxel(biome.filler)
    ELSE IF y < height - 1 THEN Voxel(biome.subsurface)
    ELSE IF y < height THEN Voxel(biome.surface)
    ELSE IF y < 15 /\ biome.surface # SAND THEN Voxel(WATER)
    ELSE Voxel(AIR)

\* The condition under which the tree is stamped:
\* biome.name == "Mountains" || biome.name == "Forest" && height < CHUNK_HEIGHT - 6,
\* then treeNoise > 0.6f.
treeStamped(biome, height, treeNoise, tall) ==
    /\ biome.name = "Mountains" \/ (biome.name = "Forest" /\ height < tall - 6)
    /\ 10 * treeNoise > 6 * PerlinOne

\* One assignment voxels[x][y][z] = Voxel(type).
Write(x, y, z, type) == [x |-> x, y |-> y, z |-> z, voxel |-> Voxel(type)]

\* The canopy loops dx, dz in -2..2, dy in 3..5, in loop order.
CanopyOffsets == [k \in 1..75 |->
                     << ((k - 1) \div 15) - 2, (((k - 1) \div 3) % 5) - 2, ((k - 1) % 3) + 3 >>]

\* The assignments generateTerrain makes for column (x, z), in order: the
\* fill of y = 0 .. tall - 1, then the trunk and the canopy of a tree.
columnWrites(biome, height, x, z, treeNoise, tall) ==
    LET fill == [k \in 1..tall |->
                    [x |-> x, y |-> k - 1, z |-> z, voxel |-> columnFill(biome, height, k - 1)]]
        trunk == [t \in 1..4 |-> Write(x, height + (t - 1), z, LOG)]
        inCanopy(o) == /\ x + o[1] >= 0 /\ x + o[1] < CHUNK_SIZE
                       /\ z + o[2] >= 0 /\ z + o[2] < CHUNK_SIZE
                       /\ Abs(o[1]) + Abs(o[2]) + (o[3] - 3) < 5
        kept == SelectSeq(CanopyOffsets, inCanopy)
        canopy == [k \in 1..Len(kept) |->
                      Write(x + kept[k][1], height + kept[k][3], z + kept[k][2], LEAVES)]
    IN  IF treeStamped(biome, height, treeNoise, tall)
        THEN fill \o trunk \o canopy
        ELSE fill

\* The index of an assignment lies inside Voxel voxels[CHUNK_SIZE][tall][CHUNK_SIZE].
InGrid(w, tall) ==
    /\ 0 <= w.x /\ w.x < CHUNK_SIZE
    /\ 0 <= w.y /\ w.y < tall
    /\ 0 <= w.z /\ w.z < CHUNK_SIZE

\* The three noise samples of the column at (worldX, worldZ): biome at
\* frequency 0.001, height at 0.01, tree at 0.1.
columnNoise(worldX, worldZ, seed) ==
    [biome |-> perlinNoise(worldX, worldZ, 1000, seed),
     height |-> perlinNoise(worldX, worldZ, 100, seed),
     tree |-> perlinNoise(worldX, worldZ, 10, seed)]

\* The assignments of generateTerrain for the k-th column of the x, z loops.
terrainColumn(coord, seed, k) ==
    LET x == k \div CHUNK_SIZE
        z == k % CHUNK_SIZE
    IN  Then(columnNoise(coord.x * CHUNK_SIZE + x, coord.z * CHUNK_SIZE + z, seed), LAMBDA n :
        Then(biomes[biomeIndex(n.biome) + 1], LAMBDA biome :
        Then(columnHeight(biome, n.height, CHUNK_HEIGHT), LAMBDA height :
             columnWrites(biome, height, x, z, n.tree, CHUNK_HEIGHT))))

\* The behaviour of generateTerrain is defined for the chunk at coord: every
\* biome index is inside the table and every assignment inside the grid.
terrainDefined(coord, seed) ==
    \A k \in 0..(CHUNK_SIZE * CHUNK_SIZE - 1) :
        /\ biomeIndex(perlinNoise(coord.x * CHUNK_SIZE + (k \div CHUNK_SIZE),
                                  coord.z * CHUNK_SIZE + (k % CHUNK_SIZE), 1000, seed))
               \in 0..(biomeCount - 1)
        /\ \E writes \in { terrainColumn(coord, seed, k) } :
               \A i \in DOMAIN writes : InGrid(writes[i], CHUNK_HEIGHT)

\* The grid after the assignments of writes, made in order.
Stamp(grid, writes) ==
    LET at(i) == <<writes[i].x, writes[i].y, writes[i].z>>
        touched == { at(i) : i \in DOMAIN writes }
        lastAt(c) == CHOOSE i \in DOMAIN writes :
                         at(i) = c /\ \A j \in DOMAIN writes : at(j) = c => j <= i
    IN  [c \in DOMAIN grid |-> IF c \in touched THEN writes[lastAt(c)].voxel ELSE grid[c]]

\* The grid after the assignments of the columns k, k + 1, ...
RECURSIVE StampColumns(_, _, _, _)
StampColumns(grid, coord, seed, k) ==
    IF k >= CHUNK_SIZE * CHUNK_SIZE THEN grid
    ELSE Then(terrainColumn(coord, seed, k), LAMBDA writes :
         Then(Stamp(grid, writes), LAMBDA g : StampColumns(g, coord, seed, k + 1)))

\* The column loops of generateTerrain from column k on, over a grid of
\* height tall, where inputs[k] holds the biome, the clamped height and the
\* tree noise of column k.
RECURSIVE generateColumns(_, _, _, _)
generateColumns(grid, inputs, k, tall) ==
    IF k >= CHUNK_SIZE * CHUNK_SIZE THEN grid
    ELSE Then(columnWrites(inputs[k].biome, inputs[k].height, k \div CHUNK_SIZE, k % CHUNK_SIZE,
                           inputs[k].tree, tall), LAMBDA writes :
         Then(Stamp(grid, writes), LAMBDA g : generateColumns(g, inputs, k + 1, tall)))

\* Chunk::generateTerrain: the voxel grid of the chunk at coord, where the
\* behaviour is defined (terrainDefined).
generateTerrain(coord, seed) ==
    StampColumns([c \in Cells |-> Voxel(AIR)], coord, seed, 0)

\* The coordinates at which the calls of the model construct chunks.
TerrainCoords ==
    GetCoords \cup
    UNION { { ChunkCoord(getCurrentChunkCoord(p[1], p[2]).x + dx,
                         getCurrentChunkCoord(p[1], p[2]).z + dz) :
                  dx \in (-RENDER_DISTANCE)..RENDER_DISTANCE,
                  dz \in (-RENDER_DISTANCE)..RENDER_DISTANCE } : p \in CamPositions }

\* The seeds under which generateTerrain is defined at those coordinates.
DefinedSeeds == { s \in 0..MaxSeed : \A c \in TerrainCoords : terrainDefined(c, s) }

\* generateTerrain tabulated over those seeds and coordinates (an explicit
\* function, computed once).
terrainTable ==
    [sc \in DefinedSeeds \X TerrainCoords |-> generateTerrain(sc[2], sc[1])] @@ <<>>

terrainAt(coord, seed) ==
    IF <<seed, coord>> \in DOMAIN terrainTable
    THEN terrainTable[<<seed, coord>>]
    ELSE generateTerrain(coord, seed)

\* vec3(coord.x * CHUNK_SIZE, 0, coord.z * CHUNK_SIZE): int products stored as floats.
WorldPosition(c) == << ToFloat(c.x * CHUNK_SIZE), 0, ToFloat(c.z * CHUNK_SIZE) >>

\* Chunk::Chunk
NewChunk(c, seed) ==
    [coord |-> c, worldPosition |-> WorldPosition(c),
     meshGenerated |-> FALSE, meshDirty |-> TRUE,
     voxels |-> terrainAt(c, seed), vertices |-> <<>>]

-----------------------------------------------------------------------------
(* InfiniteWorld: a world value W is the pair of the map and the objects.   *)

World(ch, hp) == [chunks |-> ch, heap |-> hp]

\* operator new: an address no live object has. Addresses are opaque to the
\* program; the model names the k-th live object built for a coordinate
\* <<x, z, k>>.
NewPtr(hp, coord) ==
    LET k == CHOOSE n \in 0..Cardinality(DOMAIN hp) :
                 /\ <<coord.x, coord.z, n>> \notin DOMAIN hp
                 /\ \A m \in 0..(n - 1) : <<coord.x, coord.z, m>> \in DOMAIN hp
    IN  <<coord.x, coord.z, k>>

\* markNeighbourChunksDirty reaching every resident chunk.
markEveryChunkDirty(W, coord) ==
    World(W.chunks, [p \in DOMAIN W.heap |-> [W.heap[p] EXCEPT !.meshDirty = TRUE]])

\* markNeighbourChunksDirty with the two z neighbours left out.
markNeighbourChunksDirtyXOnly(W, coord) ==
    LET neighbours == { ChunkCoord(coord.x - 1, coord.z), ChunkCoord(coord.x + 1, coord.z) }
        hit == { W.chunks[n] : n \in neighbours \cap DOMAIN W.chunks }
    IN  World(W.chunks,
              [p \in DOMAIN W.heap |->
                  IF p \in hit THEN [W.heap[p] EXCEPT !.meshDirty = TRUE] ELSE W.heap[p]])

\* InfiniteWorld::markNeighbourChunksDirty
markNeighbourChunksDirty(W, coord) ==
    LET neighbours == { ChunkCoord(coord.x - 1, coord.z), ChunkCoord(coord.x + 1, coord.z),
                        ChunkCoord(coord.x, coord.z - 1), ChunkCoord(coord.x, coord.z + 1) }
        hit == { W.chunks[n] : n \in neighbours \cap DOMAIN W.chunks }
    IN  World(W.chunks,
              [p \in DOMAIN W.heap |->
                  IF p \in hit THEN [W.heap[p] EXCEPT !.meshDirty = TRUE] ELSE W.heap[p]])

\* getChunk without the lookup: a chunk is built on every call.
getChunkNoLookup(W, coord, seed) ==
    LET newChunk == NewPtr(W.heap, coord)
        W1 == World([c \in DOMAIN W.chunks \cup {coord} |->
                        IF c = coord THEN newChunk ELSE W.chunks[c]],
                    [p \in DOMAIN W.heap \cup {newChunk} |->
                        IF p = newChunk THEN NewChunk(coord, seed) ELSE W.heap[p]])
    IN  Then(W1, LAMBDA W2 :
                 [world |-> markNeighbourChunksDirty(W2, coord), ret |-> newChunk])

\* InfiniteWorld::getChunk: the world after the call and the pointer returned.
getChunk(W, coord, seed) ==
    IF coord \in DOMAIN W.chunks
    THEN [world |-> W, ret |-> W.chunks[coord]]
    ELSE LET newChunk == NewPtr(W.heap, coord)
             W1 == World([c \in DOMAIN W.chunks \cup {coord} |->
                             IF c = coord THEN newChunk ELSE W.chunks[c]],
                         [p \in DOMAIN W.heap \cup {newChunk} |->
                             IF p = newChunk THEN NewChunk(coord, seed) ELSE W.heap[p]])
         IN  Then(W1, LAMBDA W2 :
                      [world |-> markNeighbourChunksDirty(W2, coord), ret |-> newChunk])

\* InfiniteWorld::loadChunk
loadChunk(W, coord, seed) == getChunk(W, coord, seed).world

\* The coordinates loadChunksAroundPlayer visits, in loop order (x outer, z inner).
LoadOrder(playerChunk) ==
    LET n == 2 * RENDER_DISTANCE + 1
    IN  [k \in 1..(n * n) |->
            ChunkCoord(playerChunk.x - RENDER_DISTANCE + ((k - 1) \div n),
                       playerChunk.z - RENDER_DISTANCE + ((k - 1) % n))]

RECURSIVE LoadFrom(_, _, _, _)
LoadFrom(W, order, k, seed) ==
    IF k > Len(order) THEN W
    ELSE Then(IF order[k] \notin DOMAIN W.chunks
              THEN loadChunk(W, order[k], seed) ELSE W,
              LAMBDA W1 : LoadFrom(W1, order, k + 1, seed))

\* InfiniteWorld::loadChunksAroundPlayer
loadChunksAroundPlayer(W, playerChunk, seed) ==
    LoadFrom(W, LoadOrder(playerChunk), 1, seed)

\* unloadDistantChunks with the two distance tests joined by "and".
unloadDistantChunksBothAxes(W, playerChunk) ==
    LET chunksToRemove ==
            { c \in DOMAIN W.chunks :
                LET dx == Abs(c.x - playerChunk.x)
                    dz == Abs(c.z - playerChunk.z)
                IN  dx > RENDER_DISTANCE + 2 /\ dz > RENDER_DISTANCE + 2 }
        deleted == { W.chunks[c] : c \in chunksToRemove }
    IN  World([c \in DOMAIN W.chunks \ chunksToRemove |-> W.chunks[c]],
              [p \in DOMAIN W.heap \ deleted |-> W.heap[p]])

\* unloadDistantChunks without the margin: everything beyond RENDER_DISTANCE goes.
unloadDistantChunksNoMargin(W, playerChunk) ==
    LET chunksToRemove ==
            { c \in DOMAIN W.chunks :
                \/ Abs(c.x - playerChunk.x) > RENDER_DISTANCE
                \/ Abs(c.z - playerChunk.z) > RENDER_DISTANCE }
        deleted == { W.chunks[c] : c \in chunksToRemove }
    IN  World([c \in DOMAIN W.chunks \ chunksToRemove |-> W.chunks[c]],
              [p \in DOMAIN W.heap \ deleted |-> W.heap[p]])

\* InfiniteWorld::unloadDistantChunks: delete and erase every chunk collected.
unloadDistantChunks(W, playerChunk) ==
    LET chunksToRemove ==
            { c \in DOMAIN W.chunks :
                LET dx == Abs(c.x - playerChunk.x)
                    dz == Abs(c.z - playerChunk.z)
                IN  dx > RENDER_DISTANCE + 2 \/ dz > RENDER_DISTANCE + 2 }
        deleted == { W.chunks[c] : c \in chunksToRemove }
    IN  World([c \in DOMAIN W.chunks \ chunksToRemove |-> W.chunks[c]],
              [p \in DOMAIN W.heap \ deleted |-> W.heap[p]])

\* The destructor with the delete loop left out: the map is cleared only.
destroyWorldNoDelete(W) == World(<<>>, W.heap)

\* InfiniteWorld::~InfiniteWorld: delete every chunk of the map, clear the map.
destroyWorld(W) ==
    LET deleted == { W.chunks[c] : c \in DOMAIN W.chunks }
    IN  World(<<>>, [p \in DOMAIN W.heap \ deleted |-> W.heap[p]])

\* update without the comparison against lastPlayerChunk.
updateUnthrottled(W, lpc, playerChunk, seed) ==
    [world |-> Then(loadChunksAroundPlayer(W, playerChunk, seed),
                    LAMBDA W1 : unloadDistantChunks(W1, playerChunk)),
     lastPlayerChunk |-> playerChunk]

\* InfiniteWorld::update: the world and lastPlayerChunk after the call.
update(W, lpc, playerChunk, seed) ==
    IF ~(playerChunk = lpc)
    THEN [world |-> Then(loadChunksAroundPlayer(W, playerChunk, seed),
                         LAMBDA W1 : unloadDistantChunks(W1, playerChunk)),
          lastPlayerChunk |-> playerChunk]
    ELSE [world |-> W, lastPlayerChunk |-> lpc]

\* InfiniteWorld::getLoadedChunkCount
getLoadedChunkCount(W) == Cardinality(DOMAIN W.chunks)

\* InfiniteWorld::getVoxelTypeAt
getVoxelTypeAt(W, worldX, worldY, worldZ) ==
    LET chunkX == FloorDivChunk(worldX)
        chunkZ == FloorDivChunk(worldZ)
        coord == ChunkCoord(chunkX, chunkZ)
        localX == worldX - (chunkX * CHUNK_SIZE)
        localY == worldY
        localZ == worldZ - (chunkZ * CHUNK_SIZE)
    IN  IF coord \notin DOMAIN W.chunks THEN AIR
        ELSE IF ~InChunk(localX, localY, localZ) THEN AIR
        ELSE LET v == W.heap[W.chunks[coord]].voxels[<<localX, localY, localZ>>]
             IN  IF v.isActive THEN v.type ELSE AIR

\* InfiniteWorld::isVoxelSolidAt
isVoxelSolidAt(W, worldX, worldY, worldZ) ==
    LET chunkX == FloorDivChunk(worldX)
        chunkZ == FloorDivChunk(worldZ)
        coord == ChunkCoord(chunkX, chunkZ)
        localX == worldX - (chunkX * CHUNK_SIZE)
        localY == worldY
        localZ == worldZ - (chunkZ * CHUNK_SIZE)
    IN  IF coord \notin DOMAIN W.chunks THEN FALSE
        ELSE IF ~InChunk(localX, localY, localZ) THEN FALSE
        ELSE W.heap[W.chunks[coord]].voxels[<<localX, localY, localZ>>].isActive

\* setVoxel that brings the owning chunk in instead of returning.
setVoxelLoading(W, worldX, worldY, worldZ, type) ==
    LET coord == ChunkCoord(FloorDivChunk(worldX), FloorDivChunk(worldZ))
    IN  [world |-> getChunk(W, coord, 0).world, wrote |-> FALSE]

\* InfiniteWorld::setVoxel: the world after the call, and whether the grid
\* write of line 831 was reached.
setVoxel(W, worldX, worldY, worldZ, type) ==
    LET chunkX == FloorDivChunk(worldX)
        chunkZ == FloorDivChunk(worldZ)
        coord == ChunkCoord(chunkX, chunkZ)
        localX == worldX - (chunkX * CHUNK_SIZE)
        localY == worldY
        localZ == worldZ - (chunkZ * CHUNK_SIZE)
    IN  IF coord \notin DOMAIN W.chunks THEN [world |-> W, wrote |-> FALSE]
        ELSE IF ~InChunk(localX, localY, localZ) THEN [world |-> W, wrote |-> FALSE]
        ELSE LET chunk == W.chunks[coord]
                 W1 == World(W.chunks,
                             [W.heap EXCEPT ![chunk] =
                                 [@ EXCEPT !.voxels[<<localX, localY, localZ>>] = Voxel(type),
                                           !.meshDirty = TRUE]])
             IN  Then(W1, LAMBDA W2 :
                          [world |-> markNeighbourChunksDirty(W2, coord), wrote |-> TRUE])

-----------------------------------------------------------------------------
(* Chunk: queries and greedy meshing                                        *)

\* Chunk::getVoxelTypeAt of the chunk object at address p.
chunkGetVoxelTypeAt(W, p, x, y, z) ==
    IF ~InChunk(x, y, z)
    THEN LET worldX == W.heap[p].coord.x * CHUNK_SIZE + x
             worldY == y
             worldZ == W.heap[p].coord.z * CHUNK_SIZE + z
         IN  IF worldY < 0 \/ worldY >= CHUNK_HEIGHT THEN AIR
             ELSE getVoxelTypeAt(W, worldX, worldY, worldZ)
    ELSE LET v == W.heap[p].voxels[<<x, y, z>>]
         IN  IF v.isActive THEN v.type ELSE AIR

\* int dimensions[3], indexed by axis 0..2
dimensions == [a \in 0..2 |-> IF a = 1 THEN CHUNK_HEIGHT ELSE CHUNK_SIZE]

\* The coordinate mapping of generateFacesForDirection: in-plane axes u, v.
AxisU(axis) == IF axis = 0 THEN 1 ELSE 0

AxisV(axis) == IF axis = 2 THEN 1 ELSE 2

\* int pos[3] with pos[u] = i, pos[v] = j, pos[w] = d
PosOf(axis, i, j, d) ==
    [a \in 0..2 |-> IF a = AxisU(axis) THEN i ELSE IF a = AxisV(axis) THEN j ELSE d]

\* The mask predicate with WATER counted as solid on the adjacent side.
MaskCellWaterHides(W, p, axis, direction, i, j, d) ==
    LET pos == PosOf(axis, i, j, d)
        adjPos == PosOf(axis, i, j, d + direction)
        current == chunkGetVoxelTypeAt(W, p, pos[0], pos[1], pos[2])
        adjacent == chunkGetVoxelTypeAt(W, p, adjPos[0], adjPos[1], adjPos[2])
    IN  IF axis = 1 /\ direction = -1 /\ pos[1] = 0 THEN AIR
        ELSE IF (current # AIR /\ current # WATER) /\ adjacent = AIR THEN current
        ELSE AIR

\* The mask predicate without the rule for the bottom layer.
MaskCellNoFloorRule(W, p, axis, direction, i, j, d) ==
    LET pos == PosOf(axis, i, j, d)
        adjPos == PosOf(axis, i, j, d + direction)
        current == chunkGetVoxelTypeAt(W, p, pos[0], pos[1], pos[2])
        adjacent == chunkGetVoxelTypeAt(W, p, adjPos[0], adjPos[1], adjPos[2])
    IN  IF (current # AIR /\ current # WATER) /\ ~(adjacent # AIR /\ adjacent # WATER)
        THEN current ELSE AIR

\* The value the mask fill stores for cell (i, j) of layer d.
MaskCell(W, p, axis, direction, i, j, d) ==
    LET pos == PosOf(axis, i, j, d)
        adjPos == PosOf(axis, i, j, d + direction)
        current == chunkGetVoxelTypeAt(W, p, pos[0], pos[1], pos[2])
        adjacent == chunkGetVoxelTypeAt(W, p, adjPos[0], adjPos[1], adjPos[2])
        currentSolid == (current # AIR /\ current # WATER)
        adjacentSolid == (adjacent # AIR /\ adjacent # WATER)
    IN  IF axis = 1 /\ direction = -1 /\ pos[1] = 0 THEN AIR
        ELSE IF currentSolid /\ ~adjacentSolid THEN current
        ELSE AIR

\* VoxelType mask[CHUNK_SIZE * CHUNK_HEIGHT] after the fill loop of layer d.
FillMask(W, p, axis, direction, d) ==
    LET du == dimensions[AxisU(axis)]
        dv == dimensions[AxisV(axis)]
    IN  [k \in 0..(CHUNK_SIZE * CHUNK_HEIGHT - 1) |->
            IF k < du * dv THEN MaskCell(W, p, axis, direction, k % du, k \div du, d)
            ELSE AIR]

\* "Find width of quad"
RECURSIVE QuadWidth(_, _, _, _, _, _)
QuadWidth(mask, du, j, k, voxelType, width) ==
    IF k < du /\ mask[j * du + k] = voxelType
    THEN QuadWidth(mask, du, j, k + 1, voxelType, width + 1)
    ELSE width

\* The height scan testing only the first column of the span.
RECURSIVE QuadHeightFirstColumn(_, _, _, _, _, _, _, _)
QuadHeightFirstColumn(mask, du, dv, i, k, width, voxelType, height) ==
    IF k < dv /\ mask[k * du + i] = voxelType
    THEN QuadHeightFirstColumn(mask, du, dv, i, k + 1, width, voxelType, height + 1)
    ELSE height

\* The height scan going one row past the last row of the layer.
RECURSIVE QuadHeightPastLastRow(_, _, _, _, _, _, _, _)
QuadHeightPastLastRow(mask, du, dv, i, k, width, voxelType, height) ==
    IF k <= dv /\ (k = dv \/ \A l \in i..(i + width - 1) : mask[k * du + l] = voxelType)
    THEN QuadHeightPastLastRow(mask, du, dv, i, k + 1, width, voxelType, height + 1)
    ELSE height

\* "Find height of quad"
RECURSIVE QuadHeight(_, _, _, _, _, _, _, _)
QuadHeight(mask, du, dv, i, k, width, voxelType, height) ==
    IF k < dv /\ \A l \in i..(i + width - 1) : mask[k * du + l] = voxelType
    THEN QuadHeight(mask, du, dv, i, k + 1, width, voxelType, height + 1)
    ELSE height

\* The clearing loop wiping only the first row of the rectangle.
ClearMaskFirstRow(mask, du, i, j, width, height) ==
    [k \in DOMAIN mask |->
        IF (k \div du) = j /\ (k % du) \in i..(i + width - 1) THEN AIR ELSE mask[k]]

\* "Clear processed area from mask"
ClearMask(mask, du, i, j, width, height) ==
    [k \in DOMAIN mask |->
        IF /\ (k \div du) \in j..(j + height - 1)
           /\ (k % du) \in i..(i + width - 1)
        THEN AIR ELSE mask[k]]

\* Chunk::getVoxelColor, the channels in hundredths.
getVoxelColor(type) ==
    CASE type = STONE  -> <<50, 50, 50>>
      [] type = GRASS  -> <<0, 80, 0>>
      [] type = DIRT   -> <<60, 40, 20>>
      [] type = SAND   -> <<90, 80, 50>>
      [] type = WATER  -> <<20, 40, 80>>
      [] type = SNOW   -> <<95, 98, 100>>
      [] type = LOG    -> <<55, 27, 7>>
      [] type = LEAVES -> <<13, 55, 13>>
      [] OTHER         -> <<100, 100, 100>>

\* The colour addOptimizedQuad gives a face: getVoxelColor times the face
\* shade (1.0 top, 0.7 bottom, 0.85 sides), in ten-thousandths.
FaceColor(voxelType, axis, direction) ==
    LET shade == IF axis = 1 /\ direction = 1 THEN 100
                 ELSE IF axis = 1 /\ direction = -1 THEN 70
                 ELSE 85
        base == getVoxelColor(voxelType)
    IN  << base[1] * shade, base[2] * shade, base[3] * shade >>

\* Chunk::addOptimizedQuad: the vertex buffer with the six vertices of the
\* quad's two triangles appended, each a position, a normal and a colour.
addOptimizedQuad(vertices, worldPosition, axis, direction, i, j, d, width, height, voxelType) ==
    LET u == AxisU(axis)
        v == AxisV(axis)
        pos == PosOf(axis, i, j, d)
        faceOffset == IF direction > 0 THEN 1 ELSE 0
        corners ==
            [c \in 0..3 |->
                LET corner == [a \in 0..2 |->
                        pos[a]
                        + (IF a = u /\ (c = 1 \/ c = 2) THEN width ELSE 0)
                        + (IF a = v /\ (c = 2 \/ c = 3) THEN height ELSE 0)
                        + (IF a = axis THEN faceOffset ELSE 0)]
                IN  << ToFloat(corner[0] + worldPosition[1]),
                       ToFloat(corner[1] + worldPosition[2]),
                       ToFloat(corner[2] + worldPosition[3]) >>]
        normal == << IF axis = 0 THEN direction ELSE 0,
                     IF axis = 1 THEN direction ELSE 0,
                     IF axis = 2 THEN direction ELSE 0 >>
        quad == IF direction < 0 \/ (axis = 1 /\ direction = 1)
                THEN <<0, 3, 2, 1>> ELSE <<0, 1, 2, 3>>
        triangles == << quad[1], quad[2], quad[3], quad[1], quad[3], quad[4] >>
        color == FaceColor(voxelType, axis, direction)
    IN  vertices \o [n \in 1..6 |->
                        [position |-> corners[triangles[n]], normal |-> normal,
                         color |-> color]]

\* The scan loop of one layer: from cell (i, j) on, in row-major order.
\* It yields the mask and the vertex buffer it leaves, and the rectangles
\* <<i, j, width, height, voxelType>> it passed to addOptimizedQuad.
RECURSIVE ScanMask(_, _, _, _, _, _, _, _, _)
ScanMask(worldPosition, mask, axis, direction, d, i, j, vertices, quads) ==
    LET du == dimensions[AxisU(axis)]
        dv == dimensions[AxisV(axis)]
    IN  IF j >= dv THEN [mask |-> mask, vertices |-> vertices, quads |-> quads]
        ELSE IF i >= du
        THEN ScanMask(worldPosition, mask, axis, direction, d, 0, j + 1, vertices, quads)
        ELSE IF mask[j * du + i] # AIR
        THEN LET voxelType == mask[j * du + i]
                 width == QuadWidth(mask, du, j, i + 1, voxelType, 1)
                 height == QuadHeight(mask, du, dv, i, j + 1, width, voxelType, 1)
             IN  Then([mask |-> ClearMask(mask, du, i, j, width, height),
                       i |-> i + width,
                       vertices |-> addOptimizedQuad(vertices, worldPosition, axis, direction,
                                                     i, j, d, width, height, voxelType),
                       quads |-> Append(quads, <<i, j, width, height, voxelType>>)],
                      LAMBDA s : ScanMask(worldPosition, s.mask, axis, direction, d,
                                          s.i, j, s.vertices, s.quads))
        ELSE ScanMask(worldPosition, mask, axis, direction, d, i + 1, j, vertices, quads)

RECURSIVE FacesFromLayer(_, _, _, _, _, _)
FacesFromLayer(W, p, axis, direction, d, vertices) ==
    IF d >= dimensions[axis] THEN vertices
    ELSE Then(FillMask(W, p, axis, direction, d), LAMBDA mask :
         Then(ScanMask(W.heap[p].worldPosition, mask, axis, direction, d, 0, 0,
                       vertices, <<>>).vertices,
              LAMBDA v :
              FacesFromLayer(W, p, axis, direction, d + 1, v)))

\* Chunk::generateFacesForDirection
generateFacesForDirection(W, p, axis, direction, vertices) ==
    FacesFromLayer(W, p, axis, direction, 0, vertices)

\* Chunk::generateMesh: the vertex buffer it leaves.
generateMesh(W, p) ==
    Then(generateFacesForDirection(W, p, 0, 1, <<>>), LAMBDA v1 :
    Then(generateFacesForDirection(W, p, 0, -1, v1), LAMBDA v2 :
    Then(generateFacesForDirection(W, p, 1, 1, v2), LAMBDA v3 :
    Then(generateFacesForDirection(W, p, 1, -1, v3), LAMBDA v4 :
    Then(generateFacesForDirection(W, p, 2, 1, v4), LAMBDA v5 :
         generateFacesForDirection(W, p, 2, -1, v5))))))

\* Chunk::render rebuilding only a chunk that was never built.
chunkRenderOnce(W, p) ==
    IF ~W.heap[p].meshGenerated
    THEN [W.heap[p] EXCEPT !.vertices = generateMesh(W, p),
                           !.meshGenerated = TRUE, !.meshDirty = FALSE]
    ELSE W.heap[p]

\* Chunk::render: the chunk object after the call.
chunkRender(W, p) ==
    IF ~W.heap[p].meshGenerated \/ W.heap[p].meshDirty
    THEN [W.heap[p] EXCEPT !.vertices = generateMesh(W, p),
                           !.meshGenerated = TRUE, !.meshDirty = FALSE]
    ELSE W.heap[p]

-----------------------------------------------------------------------------
(* Frustum: a plane is <<x, y, z, w>>; a matrix is its four rows.           *)

VAdd(a, b) == [k \in 1..4 |-> a[k] + b[k]]

VSub(a, b) == [k \in 1..4 |-> a[k] - b[k]]

\* The stored planes are kept in units of 1 / PlaneOne, so that a plane
\* divided by a length of 1, 2, 3 or 5 keeps whole components.
PlaneOne == 30

\* glm::length(glm::vec3(plane)): the planes of the model have integral length.
PlaneLength(plane) ==
    LET n == plane[1] * plane[1] + plane[2] * plane[2] + plane[3] * plane[3]
    IN  CHOOSE r \in 0..n : r * r <= n /\ (r + 1) * (r + 1) > n

\* The normalisation dividing by the length of all four components.
NormalizeWithW(plane) ==
    LET n == plane[1] * plane[1] + plane[2] * plane[2] + plane[3] * plane[3]
                 + plane[4] * plane[4]
        length == CHOOSE r \in 0..n : r * r <= n /\ (r + 1) * (r + 1) > n
    IN  IF length > 0 THEN [k \in 1..4 |-> (plane[k] * PlaneOne) \div length]
        ELSE [k \in 1..4 |-> plane[k] * PlaneOne]

\* if (length > 0.0f) plane /= length;
Normalize(plane) ==
    LET length == PlaneLength(plane)
    IN  IF length > 0 THEN [k \in 1..4 |-> (plane[k] * PlaneOne) \div length]
        ELSE [k \in 1..4 |-> plane[k] * PlaneOne]

\* Frustum::update: planes Left, Right, Bottom, Top, Near, Far.
frustumUpdate(viewProj) ==
    LET row0 == viewProj[1]
        row1 == viewProj[2]
        row2 == viewProj[3]
        row3 == viewProj[4]
    IN  << Normalize(VAdd(row3, row0)), Normalize(VSub(row3, row0)),
           Normalize(VAdd(row3, row1)), Normalize(VSub(row3, row1)),
           Normalize(VAdd(row3, row2)), Normalize(VSub(row3, row2)) >>

\* The box test taking the minimum corner for every plane.
isBoxVisibleMinCorner(planes, min, max) ==
    \A i \in 1..6 :
        ~(min[1] * planes[i][1] + min[2] * planes[i][2] + min[3] * planes[i][3]
              + planes[i][4] < 0)

\* Frustum::isBoxVisible
isBoxVisible(planes, min, max) ==
    \A i \in 1..6 :
        LET px == IF planes[i][1] > 0 THEN max[1] ELSE min[1]
            py == IF planes[i][2] > 0 THEN max[2] ELSE min[2]
            pz == IF planes[i][3] > 0 THEN max[3] ELSE min[3]
        IN  ~(px * planes[i][1] + py * planes[i][2] + pz * planes[i][3] + planes[i][4] < 0)

\* The box InfiniteWorld::render tests for the chunk at coord.
ChunkBoxMin(coord) == << ToFloat(coord.x * CHUNK_SIZE), 0, ToFloat(coord.z * CHUNK_SIZE) >>

ChunkBoxMax(coord) ==
    << ToFloat(ChunkBoxMin(coord)[1] + CHUNK_SIZE), CHUNK_HEIGHT,
       ToFloat(ChunkBoxMin(coord)[3] + CHUNK_SIZE) >>

\* InfiniteWorld::render: the world after the call (planes already updated).
render(W, planes) ==
    World(W.chunks,
          [p \in DOMAIN W.heap |->
              IF \E coord \in DOMAIN W.chunks :
                    /\ W.chunks[coord] = p
                    /\ isBoxVisible(planes, ChunkBoxMin(coord), ChunkBoxMax(coord))
              THEN chunkRender(W, p) ELSE W.heap[p]])

-----------------------------------------------------------------------------
(* The calls a client can make, and the values the model passes them.       *)

\* World coordinates passed to setVoxel: a cell of chunk (0, -1), the
\* same column above the height range, and a cell of the far chunk.
EditCoords == { <<0, 0, -1>>, <<0, CHUNK_HEIGHT, -1>>,
                <<FarColumn, 0, 0>> }

EditTypes == { AIR, STONE }

\* A view-projection matrix whose clip volume is the cube of half-width h
\* around (cx, cy, cz), given by its rows.
CubeView(cx, cy, cz, h) ==
    << <<2, 0, 0, -2 * cx>>, <<0, 2, 0, -2 * cy>>, <<0, 0, 2, -2 * cz>>, <<0, 0, 0, 2 * h>> >>

ZeroView == << <<0, 0, 0, 0>>, <<0, 0, 0, 0>>, <<0, 0, 0, 0>>, <<0, 0, 0, 0>> >>

\* Views that see the inside of one chunk: (0, -1) and (0, -(RENDER_DISTANCE + 1)).
ViewProjs ==
    { CubeView(CHUNK_SIZE \div 2, CHUNK_HEIGHT \div 2, -CHUNK_SIZE + (CHUNK_SIZE \div 2), 0),
      CubeView(CHUNK_SIZE \div 2, CHUNK_HEIGHT \div 2,
               -(RENDER_DISTANCE + 1) * CHUNK_SIZE + (CHUNK_SIZE \div 2), 0) }

Here == World(chunks, heap)

\* The record of a call: its name, arguments and result (<<>> for void),
\* whether it got past its early returns (update: the reload ran, setVoxel:
\* the cell was written), and the number of Chunk objects it constructed
\* and destroyed.
Call(op, args, ret, acted, hp, hp1) ==
    [op |-> op, args |-> args, ret |-> ret, acted |-> acted,
     created |-> Cardinality(DOMAIN hp1 \ DOMAIN hp),
     destroyed |-> Cardinality(DOMAIN hp \ DOMAIN hp1)]

\* The InfiniteWorld object has not been destroyed.
Alive == last.op # "~InfiniteWorld"

Init ==
    /\ chunks = <<>>
    /\ heap = <<>>
    /\ lastPlayerChunk = ChunkCoord(0, 0)
    /\ frustum = frustumUpdate(ZeroView)
    /\ GLOBAL_SEED \in DefinedSeeds
    /\ last = Call("new", <<>>, <<>>, TRUE, <<>>, <<>>)
    /\ nEdits = 0

\* world.update(camera)
Update ==
    /\ Alive
    /\ \E position \in CamPositions :
           \E playerChunk \in { getCurrentChunkCoord(position[1], position[2]) } :
           \E r \in { update(Here, lastPlayerChunk, playerChunk, GLOBAL_SEED) } :
               /\ chunks' = r.world.chunks
               /\ heap' = r.world.heap
               /\ lastPlayerChunk' = r.lastPlayerChunk
               /\ last' = Call("update", <<playerChunk>>, <<>>, ~(playerChunk = lastPlayerChunk),
                                heap, r.world.heap)
               /\ UNCHANGED <<frustum, GLOBAL_SEED, nEdits>>

\* world.getChunk(coord), world.loadChunk(coord)
GetChunk ==
    /\ Alive
    /\ \E coord \in GetCoords :
           \E r \in { getChunk(Here, coord, GLOBAL_SEED) } :
               /\ chunks' = r.world.chunks
               /\ heap' = r.world.heap
               /\ last' = Call("getChunk", <<coord>>, r.ret, TRUE, heap, r.world.heap)
               /\ UNCHANGED <<lastPlayerChunk, frustum, GLOBAL_SEED, nEdits>>

\* world.render(viewProj): frustum.update(viewProj), then the chunk loop.
RenderWith(viewProj) ==
    /\ Alive
    /\ \E planes \in { frustumUpdate(viewProj) } :
       \E W1 \in { render(Here, planes) } :
           /\ frustum' = planes
           /\ chunks' = W1.chunks
           /\ heap' = W1.heap
           /\ last' = Call("render", <<>>, <<>>, TRUE, heap, W1.heap)
           /\ UNCHANGED <<lastPlayerChunk, GLOBAL_SEED, nEdits>>

Render == \E viewProj \in ViewProjs : RenderWith(viewProj)

\* world.setVoxel(worldX, worldY, worldZ, type)
SetVoxel ==
    /\ Alive
    /\ \E at \in EditCoords, type \in EditTypes :
           \E r \in { setVoxel(Here, at[1], at[2], at[3], type) } :
               /\ r.wrote => nEdits < MaxEdits
               /\ chunks' = r.world.chunks
               /\ heap' = r.world.heap
               /\ nEdits' = IF r.wrote THEN nEdits + 1 ELSE nEdits
               /\ last' = Call("setVoxel", <<at[1], at[2], at[3], type>>, <<>>, r.wrote,
                                heap, r.world.heap)
               /\ UNCHANGED <<lastPlayerChunk, frustum, GLOBAL_SEED>>

\* The world goes out of scope at the end of main.
Destroy ==
    /\ Alive
    /\ \E W1 \in { destroyWorld(Here) } :
           /\ chunks' = W1.chunks
           /\ heap' = W1.heap
           /\ last' = Call("~InfiniteWorld", <<>>, <<>>, TRUE, heap, W1.heap)
    /\ UNCHANGED <<lastPlayerChunk, frustum, GLOBAL_SEED, nEdits>>

Next == Update \/ GetChunk \/ Render \/ SetVoxel \/ Destroy

Spec == Init /\ [][Next]_vars

-----------------------------------------------------------------------------
(* Streaming: residency after update                                        *)

\* Chebyshev distance of two chunk coordinates.
Distance(a, b) == Max(Abs(a.x - b.x), Abs(a.z - b.z))

\* Every coordinate within r of center is resident.
ResidentAround(center, r) ==
    \A x \in (center.x - r)..(center.x + r), z \in (center.z - r)..(center.z + r) :
        ChunkCoord(x, z) \in DOMAIN chunks

\* C1: after any update(observer) call, every chunk coordinate within
\* RENDER_DISTANCE (Chebyshev) of the observer's chunk is resident; a World
\* that has just been constructed is one of the states the call is made in.
C1_UpdateLoadsRenderDistance ==
    last.op = "update" => ResidentAround(last.args[1], RENDER_DISTANCE)

\* C2: a triggering update (the observer's chunk differs from lastPlayerChunk)
\* leaves no chunk resident beyond RENDER_DISTANCE + 2 of the observer's chunk
\* on either axis, and every chunk that was resident within RENDER_DISTANCE + 2
\* before the call is the same resident object after it.
C2_UnloadBeyondMarginOnly ==
    [][ (last'.op = "update" /\ last'.args[1] # lastPlayerChunk) =>
            /\ \A c \in DOMAIN chunks' :
                   Distance(c, last'.args[1]) <= RENDER_DISTANCE + 2
            /\ \A c \in DOMAIN chunks :
                   Distance(c, last'.args[1]) <= RENDER_DISTANCE + 2 =>
                       c \in DOMAIN chunks' /\ chunks'[c] = chunks[c] ]_vars

\* A triggering update has destroyed chunks and kept one in the margin ring.
C2_Witness ==
    /\ last.op = "update" /\ last.acted /\ last.destroyed > 0
    /\ \E c \in DOMAIN chunks :
           /\ Distance(c, lastPlayerChunk) > RENDER_DISTANCE
           /\ Distance(c, lastPlayerChunk) <= RENDER_DISTANCE + 2

\* C3: an update whose observer chunk equals lastPlayerChunk changes nothing:
\* the resident set, every chunk's voxels, flags and vertex buffer, the
\* chunk count and lastPlayerChunk are as before, whatever is resident.
C3_NonTriggeringUpdateIsNoOp ==
    [][ (last'.op = "update" /\ last'.args[1] = lastPlayerChunk) =>
            UNCHANGED <<chunks, heap, lastPlayerChunk, frustum>> ]_vars

\* A non-triggering update has run on a world holding built and stale chunks.
C3_Witness ==
    /\ last.op = "update" /\ ~last.acted
    /\ \E p \in DOMAIN heap : heap[p].meshGenerated /\ ~heap[p].meshDirty
    /\ \E p \in DOMAIN heap : heap[p].meshDirty

\* C4: no two live Chunk objects have the same coordinate; each map entry
\* points at the live object of its coordinate; getChunk returns the object
\* the map holds for the coordinate; getLoadedChunkCount is the number of
\* distinct coordinates of live chunks.
C4_OneChunkPerCoordinate ==
    /\ \A p, q \in DOMAIN heap : heap[p].coord = heap[q].coord => p = q
    /\ \A c \in DOMAIN chunks : chunks[c] \in DOMAIN heap /\ heap[chunks[c]].coord = c
    /\ getLoadedChunkCount(Here) = Cardinality({ heap[p].coord : p \in DOMAIN heap })
    /\ last.op = "getChunk" =>
           /\ last.args[1] \in DOMAIN chunks
           /\ last.ret = chunks[last.args[1]]

\* getChunk has been called on a resident coordinate and constructed nothing.
C4_Witness ==
    /\ last.op = "getChunk" /\ last.created = 0
    /\ last.args[1] \in DOMAIN chunks
    /\ getLoadedChunkCount(Here) > 1

-----------------------------------------------------------------------------
(* Edits                                                                    *)

\* The chunk that owns world column (wx, wz): floor division by CHUNK_SIZE.
OwningChunk(wx, wz) == ChunkCoord(wx \div CHUNK_SIZE, wz \div CHUNK_SIZE)

\* C5: for a world coordinate whose owning chunk is resident (the height
\* inside the chunk's range) and any type T, getVoxelTypeAt right after
\* setVoxel(wx, wy, wz, T) returns T.
C5_SetThenGet ==
    ( /\ last.op = "setVoxel"
      /\ OwningChunk(last.args[1], last.args[3]) \in DOMAIN chunks
      /\ last.args[2] \in 0..(CHUNK_HEIGHT - 1) ) =>
        getVoxelTypeAt(Here, last.args[1], last.args[2], last.args[3]) = last.args[4]

\* C6: after a setVoxel that wrote a cell, the owning chunk and each of its
\* four axis-adjacent chunks that is resident have meshDirty = TRUE.
C6_EditMarksDirty ==
    (last.op = "setVoxel" /\ last.acted) =>
        LET c == OwningChunk(last.args[1], last.args[3])
        IN  /\ c \in DOMAIN chunks
            /\ heap[chunks[c]].meshDirty
            /\ \A n \in { ChunkCoord(c.x - 1, c.z), ChunkCoord(c.x + 1, c.z),
                          ChunkCoord(c.x, c.z - 1), ChunkCoord(c.x, c.z + 1) } :
                   n \in DOMAIN chunks => heap[chunks[n]].meshDirty

\* A cell was written in a built chunk next to a resident chunk that was built.
C6_Witness ==
    /\ last.op = "setVoxel" /\ last.acted
    /\ LET c == OwningChunk(last.args[1], last.args[3])
       IN  /\ c \in DOMAIN chunks
           /\ heap[chunks[c]].meshGenerated
           /\ \E n \in { ChunkCoord(c.x, c.z - 1), ChunkCoord(c.x, c.z + 1) } :
                  n \in DOMAIN chunks /\ heap[chunks[n]].meshGenerated

-----------------------------------------------------------------------------
(* Mesh cache                                                               *)

\* C7: a resident chunk with meshGenerated and not meshDirty holds the vertex
\* buffer generateMesh would produce now from its voxels and its neighbours.
C7_CleanMeshIsCurrent ==
    \A c \in DOMAIN chunks :
        (heap[chunks[c]].meshGenerated /\ ~heap[chunks[c]].meshDirty) =>
            heap[chunks[c]].vertices = generateMesh(Here, chunks[c])

\* The chunk at c is stale: never built, or dirty.
Stale(c) == ~heap[chunks[c]].meshGenerated \/ heap[chunks[c]].meshDirty

\* The chunk box at c passes the test against the given planes.
InFrustum(planes, c) == isBoxVisible(planes, ChunkBoxMin(c), ChunkBoxMax(c))

\* C8: render rebuilds a resident chunk exactly when it passes the frustum
\* test and is stale; any other chunk object (clean, or stale outside the
\* frustum) is left as it was; every chunk that passed the test ends with
\* meshGenerated = TRUE and meshDirty = FALSE; residency does not change.
C8_RenderRebuildsVisibleStale ==
    [][ last'.op = "render" =>
            /\ chunks' = chunks
            /\ DOMAIN heap' = DOMAIN heap
            /\ \A c \in DOMAIN chunks :
                   LET p == chunks[c]
                   IN  /\ (InFrustum(frustum', c) /\ Stale(c)) =>
                              /\ heap'[p].vertices = generateMesh(Here, p)
                              /\ heap'[p].voxels = heap[p].voxels
                       /\ ~(InFrustum(frustum', c) /\ Stale(c)) => heap'[p] = heap[p]
                       /\ InFrustum(frustum', c) =>
                              heap'[p].meshGenerated /\ ~heap'[p].meshDirty ]_vars

\* A render has rebuilt a dirty built chunk in view while a stale chunk and
\* a clean chunk outside the view stayed behind.
C8_Witness ==
    /\ last.op = "render"
    /\ \E c \in DOMAIN chunks :
           InFrustum(frustum, c) /\ ~Stale(c) /\ Len(heap[chunks[c]].vertices) > 0
    /\ \E c \in DOMAIN chunks : ~InFrustum(frustum, c) /\ Stale(c)
    /\ \E c \in DOMAIN chunks : ~InFrustum(frustum, c) /\ ~Stale(c)

-----------------------------------------------------------------------------
(* Meshing over voxel configurations: the chunk (0, 0) holds one type with  *)
(* a second type at any subset of a 2 x 2 x 2 corner block; its four        *)
(* neighbours are absent, or resident and filled with one type. setVoxel    *)
(* can write every such grid.                                               *)

MeshCentre == ChunkCoord(0, 0)

MeshNeighbours ==
    { ChunkCoord(-1, 0), ChunkCoord(1, 0), ChunkCoord(0, -1), ChunkCoord(0, 1) }

\* The cells of the corner block.
WindowCells == { c \in Cells : c[1] < 2 /\ c[2] < 2 /\ c[3] < 2 }

\* <<type of the chunk, type of the chosen cells>>
MeshPalettes ==
    { <<AIR, STONE>>, <<AIR, WATER>>, <<STONE, AIR>>, <<STONE, GRASS>>, <<STONE, WATER>>,
      <<WATER, STONE>> }

\* The fill of the four neighbours; <<>> when they are not resident.
MeshNeighbourFills == { <<>>, <<AIR>>, <<STONE>>, <<WATER>> }

\* A chunk object that has never been rendered, holding the given grid.
EditedChunk(c, voxels) ==
    [coord |-> c, worldPosition |-> WorldPosition(c),
     meshGenerated |-> FALSE, meshDirty |-> TRUE, voxels |-> voxels, vertices |-> <<>>]

MeshWorld(palette, chosen, fill) ==
    LET resident == {MeshCentre} \cup (IF fill = <<>> THEN {} ELSE MeshNeighbours)
        ptr(c) == <<c.x, c.z, 0>>
    IN  World([c \in resident |-> ptr(c)],
              [p \in { ptr(c) : c \in resident } |->
                  LET c == CHOOSE c \in resident : ptr(c) = p
                  IN  IF c = MeshCentre
                      THEN EditedChunk(c, [cell \in Cells |->
                               Voxel(IF cell \in chosen THEN palette[2] ELSE palette[1])])
                      ELSE EditedChunk(c, [cell \in Cells |-> Voxel(fill[1])])])

MeshInit ==
    \E palette \in MeshPalettes, chosen \in SUBSET WindowCells, fill \in MeshNeighbourFills :
        \E W \in { MeshWorld(palette, chosen, fill) } :
            /\ chunks = W.chunks
            /\ heap = W.heap
            /\ lastPlayerChunk = MeshCentre
            /\ frustum = frustumUpdate(ZeroView)
            /\ GLOBAL_SEED = 0
            /\ last = Call("new", <<>>, <<>>, TRUE, <<>>, <<>>)
            /\ nEdits = 0

\* A view that sees the inside of chunk (0, 0) only.
MeshView == CubeView(CHUNK_SIZE \div 2, CHUNK_HEIGHT \div 2, CHUNK_SIZE \div 2, 0)

\* world.render(viewProj) with the centre chunk in view: generateMesh runs on it.
MeshRender == RenderWith(MeshView)

MeshNext == MeshRender

MeshSpec == MeshInit /\ [][MeshNext]_vars

\* The unit faces a vertex buffer covers: each run of six vertices is a
\* quad; its normal gives axis and direction, its corner positions (less the
\* chunk's worldPosition) the layer and the rectangle of cells.
UnitFacesOf(vertices, worldPosition) ==
    UNION { LET vs == { vertices[6 * k + n] : n \in 1..6 }
                normal == vertices[6 * k + 1].normal
                axis == CHOOSE a \in 0..2 : normal[a + 1] # 0
                direction == normal[axis + 1]
                lo(a) == CHOOSE m \in { v.position[a + 1] - worldPosition[a + 1] : v \in vs } :
                             \A v \in vs : m <= v.position[a + 1] - worldPosition[a + 1]
                hi(a) == CHOOSE m \in { v.position[a + 1] - worldPosition[a + 1] : v \in vs } :
                             \A v \in vs : m >= v.position[a + 1] - worldPosition[a + 1]
                span(a) == IF a = axis
                           THEN { lo(a) - (IF direction > 0 THEN 1 ELSE 0) }
                           ELSE lo(a)..(hi(a) - 1)
            IN  { <<axis, direction, x, y, z, vertices[6 * k + 1].color>> :
                      x \in span(0), y \in span(1), z \in span(2) }
          : k \in 0..((Len(vertices) \div 6) - 1) }

\* The occlusion test of one face of one voxel of the chunk at p: the voxel
\* is solid and not water, the cell across the face is air or water (cells
\* outside the chunk read through the world), and the face is not the
\* downward face of the bottom layer.
FaceShown(W, p, x, y, z, axis, direction) ==
    LET current == chunkGetVoxelTypeAt(W, p, x, y, z)
        adjacent == chunkGetVoxelTypeAt(W, p,
                        x + (IF axis = 0 THEN direction ELSE 0),
                        y + (IF axis = 1 THEN direction ELSE 0),
                        z + (IF axis = 2 THEN direction ELSE 0))
    IN  /\ current # AIR /\ current # WATER
        /\ adjacent = AIR \/ adjacent = WATER
        /\ ~(axis = 1 /\ direction = -1 /\ y = 0)

\* The unit faces chosen voxel by voxel, face by face.
VoxelFacesOf(W, p) ==
    { <<f[1], f[2], c[1], c[2], c[3],
        FaceColor(chunkGetVoxelTypeAt(W, p, c[1], c[2], c[3]), f[1], f[2])>> :
          <<c, f>> \in { cf \in Cells \X ((0..2) \X {1, -1}) :
                           FaceShown(W, p, cf[1][1], cf[1][2], cf[1][3], cf[2][1], cf[2][2]) } }

\* C9: for every voxel configuration of a chunk and its neighbours, the unit
\* faces covered by the quads generateMesh emitted (per axis, direction and
\* layer) are exactly the unit faces the per-voxel, per-face occlusion test
\* selects, and the buffer holds whole quads of six vertices.
C9_QuadsCoverVoxelFaces ==
    last.op = "render" =>
        LET p == chunks[MeshCentre]
        IN  /\ Len(heap[p].vertices) % 6 = 0
            /\ UnitFacesOf(heap[p].vertices, heap[p].worldPosition) = VoxelFacesOf(Here, p)

\* generateMesh has run on a grid where a quad spans more than one cell and
\* a face is hidden by a neighbour chunk.
C9_Witness ==
    /\ last.op = "render"
    /\ LET p == chunks[MeshCentre]
       IN  /\ heap[p].meshGenerated
           /\ Cardinality(VoxelFacesOf(Here, p)) * 6 > Len(heap[p].vertices)
           /\ Len(heap[p].vertices) > 6
           /\ \E n \in MeshNeighbours : n \in DOMAIN chunks
           /\ \E c \in Cells : heap[p].voxels[c].type = GRASS
           /\ \E c \in Cells : heap[p].voxels[c].type = STONE

\* Every voxel of the chunk object at p is solid.
EntirelySolid(p) == \A c \in Cells : heap[p].voxels[c].isActive

\* C10: when every voxel of a chunk is solid and its four axis-adjacent
\* neighbour chunks are resident and entirely solid, generateMesh leaves the
\* chunk's vertex buffer empty.
C10_EnclosedChunkHasNoVertices ==
    ( /\ last.op = "render"
      /\ EntirelySolid(chunks[MeshCentre])
      /\ \A n \in MeshNeighbours : n \in DOMAIN chunks /\ EntirelySolid(chunks[n]) ) =>
        Len(heap[chunks[MeshCentre]].vertices) = 0

\* The solid voxels (type other than AIR) of the chunk object at p.
SolidCells(p) == { c \in Cells : heap[p].voxels[c].type # AIR }

\* The centre chunk holds exactly one solid voxel and every resident
\* neighbour chunk is all AIR.
SingleVoxel ==
    /\ Cardinality(SolidCells(chunks[MeshCentre])) = 1
    /\ \A n \in MeshNeighbours \cap DOMAIN chunks : SolidCells(chunks[n]) = {}

\* C11 as stated: a chunk whose grid holds exactly one solid voxel, of any
\* solid type at any position, with AIR everywhere else in it and around it,
\* is meshed into exactly 6 quads, 36 vertex records.
C11_SingleVoxelSixQuads ==
    (last.op = "render" /\ SingleVoxel) =>
        Len(heap[chunks[MeshCentre]].vertices) = 36

\* C11 amended: the single solid voxel is meshed into 6 quads (36 vertex
\* records) when it is not WATER and lies above the bottom layer, into 5
\* quads (30 records, no downward face) when it is not WATER and lies in the
\* bottom layer y = 0, and into no quad when it is WATER.
C11_SingleVoxelQuads ==
    (last.op = "render" /\ SingleVoxel) =>
        LET p == chunks[MeshCentre]
            c == CHOOSE c \in Cells : heap[p].voxels[c].type # AIR
        IN  Len(heap[p].vertices) =
                IF heap[p].voxels[c].type = WATER THEN 0
                ELSE IF c[2] = 0 THEN 30 ELSE 36

\* generateMesh has run on a single STONE voxel above the bottom layer with
\* resident all-AIR neighbour chunks, and produced its six quads.
C11_Witness ==
    /\ last.op = "render" /\ SingleVoxel
    /\ MeshNeighbours \subseteq DOMAIN chunks
    /\ \E c \in Cells : c[2] > 0 /\ heap[chunks[MeshCentre]].voxels[c].type = STONE
    /\ Len(heap[chunks[MeshCentre]].vertices) = 36

-----------------------------------------------------------------------------
(* Edits and queries outside the resident world                             *)

\* C12: setVoxel on a coordinate whose owning chunk is not resident, or
\* whose y is outside [0, CHUNK_HEIGHT), is a no-op: it creates no chunk,
\* changes no voxel, sets no meshDirty flag and leaves lastPlayerChunk alone.
C12_SetVoxelOutsideIsNoOp ==
    [][ ( /\ last'.op = "setVoxel"
          /\ \/ OwningChunk(last'.args[1], last'.args[3]) \notin DOMAIN chunks
             \/ last'.args[2] < 0
             \/ last'.args[2] >= CHUNK_HEIGHT )
        => /\ chunks' = chunks
           /\ heap' = heap
           /\ lastPlayerChunk' = lastPlayerChunk ]_vars

\* setVoxel has returned without writing: called above the height range on
\* a column whose chunk is resident, in a world that holds a clean chunk.
C12_Witness ==
    /\ last.op = "setVoxel" /\ ~last.acted
    /\ last.args[2] >= CHUNK_HEIGHT
    /\ OwningChunk(last.args[1], last.args[3]) \in DOMAIN chunks
    /\ ~heap[chunks[OwningChunk(last.args[1], last.args[3])]].meshDirty

\* The cell of the grids that holds world position (wx, wy, wz).
StoredCell(wx, wy, wz) ==
    LET owner == OwningChunk(wx, wz)
    IN  heap[chunks[owner]].voxels[<<wx - owner.x * CHUNK_SIZE, wy, wz - owner.z * CHUNK_SIZE>>]

\* C13: isVoxelSolidAt and getVoxelTypeAt return false / AIR when the owning
\* chunk is not resident or y is outside [0, CHUNK_HEIGHT), and the stored
\* cell's value otherwise; as queries they leave the world as it is.
C13_QueriesReadStoredCells ==
    \A at \in EditCoords :
        LET stored == /\ OwningChunk(at[1], at[3]) \in DOMAIN chunks
                      /\ at[2] >= 0 /\ at[2] < CHUNK_HEIGHT
        IN  /\ getVoxelTypeAt(Here, at[1], at[2], at[3]) =
                   (IF stored THEN StoredCell(at[1], at[2], at[3]).type ELSE AIR)
            /\ isVoxelSolidAt(Here, at[1], at[2], at[3]) =
                   (IF stored THEN StoredCell(at[1], at[2], at[3]).isActive ELSE FALSE)

-----------------------------------------------------------------------------
(* Terrain generation, column by column. The inputs are the values the      *)
(* noise functions can return and the biomes and heights of a column; the   *)
(* grid is CHUNK_SIZE x TerrainHeight x CHUNK_SIZE.                          *)

\* Values of interpolatedNoise in [-1, 1].
SampleValues == { -SmoothOne, -(SmoothOne \div 2), 0, SmoothOne \div 2, SmoothOne }

\* Values of the tree channel around the threshold 0.6.
TreeNoiseValues == { 0, (6 * PerlinOne) \div 10, ((6 * PerlinOne) \div 10) + 1 }

\* Columns of the chunk: a corner, the next column, the opposite corner.
TerrainColumns == { <<0, 0>>, <<1, 1>>, <<CHUNK_SIZE - 1, CHUNK_SIZE - 1>> }

\* Values of perlinNoise for the three channels of one column.
ColumnNoiseValues ==
    { -(15 * SmoothOne), -(12 * SmoothOne), -(8 * SmoothOne), 0, 8 * SmoothOne, 15 * SmoothOne }
    \X { -(15 * SmoothOne), 0, 15 * SmoothOne }
    \X { 0, 15 * SmoothOne }

\* What a read of biomes[biomeIndex] outside the table can find: any Biome
\* object.
StrayBiomes ==
    { biomes[i] : i \in 1..biomeCount } \cup
    { [name |-> "", surface |-> AIR, subsurface |-> AIR, filler |-> AIR,
       baseHeight |-> 0, heightVariation |-> 0] }

\* The cells of the grid of height TerrainHeight.
TerrainCells == (0..(CHUNK_SIZE - 1)) \X (0..(TerrainHeight - 1)) \X (0..(CHUNK_SIZE - 1))

\* Whole chunks: one biome and one clamped height for all columns, low
\* enough for a tree to fit in the grid, and at most two columns whose tree
\* noise is above the threshold.
ChunkPlans ==
    { <<b, height, trees>> \in {1, 2, 4} \X {2, TerrainHeight - 7}
                               \X SUBSET (0..(CHUNK_SIZE * CHUNK_SIZE - 1)) :
          Cardinality(trees) <= 2 }

\* Sample coordinates <<xNum, zNum, den>> of interpolatedNoise, in tenths:
\* whole and fractional, on both sides of zero.
SamplePoints ==
    { -15, -10, -5, 0, 5, 10, 15 } \X { -15, -10, -5, 0, 5, 10, 15 } \X { 10 }

TerrainInit ==
    /\ chunks = <<>>
    /\ heap = <<>>
    /\ lastPlayerChunk = ChunkCoord(0, 0)
    /\ frustum = frustumUpdate(ZeroView)
    /\ GLOBAL_SEED = 0
    /\ nEdits = 0
    /\ \/ \E s0 \in SampleValues, s1 \in SampleValues, s2 \in SampleValues, s3 \in SampleValues :
              last = Call("samples", <<s0, s1, s2, s3>>, <<>>, FALSE, <<>>, <<>>)
       \/ \E b \in 1..biomeCount, height \in 1..(TerrainHeight - 1),
             treeNoise \in TreeNoiseValues, column \in TerrainColumns :
              last = Call("column", <<b, height, treeNoise, column[1], column[2]>>, <<>>, FALSE,
                          <<>>, <<>>)
       \/ \E n \in ColumnNoiseValues :
              last = Call("noise", <<n[1], n[2], n[3]>>, <<>>, FALSE, <<>>, <<>>)
       \/ \E plan \in ChunkPlans :
              last = Call("chunk", plan, <<>>, FALSE, <<>>, <<>>)
       \/ \E point \in SamplePoints :
              last = Call("point", point, <<>>, FALSE, <<>>, <<>>)

\* The biome selection of generateTerrain and selectBiome on the noise total
\* of four octave samples.
BiomeIndex ==
    /\ last.op = "samples"
    /\ \E total \in { OctaveSum([i \in 0..3 |-> last.args[i + 1]]) } :
           last' = Call("biomeIndex", last.args, <<total, biomeIndex(total)>>, TRUE, <<>>, <<>>)
    /\ UNCHANGED <<chunks, heap, lastPlayerChunk, frustum, GLOBAL_SEED, nEdits>>

\* The assignments of generateTerrain for one column of a given biome and
\* clamped height.
ColumnWrites ==
    /\ last.op = "column"
    /\ last' = Call("columnWrites", last.args,
                    columnWrites(biomes[last.args[1]], last.args[2], last.args[4], last.args[5],
                                 last.args[3], TerrainHeight),
                    TRUE, <<>>, <<>>)
    /\ UNCHANGED <<chunks, heap, lastPlayerChunk, frustum, GLOBAL_SEED, nEdits>>

\* The body of the column loop of generateTerrain on the three noise values
\* of column (0, 0), run for the first time or again; the read of
\* biomes[biomeIndex] outside the table yields a stray object.
GenerateColumn ==
    /\ last.op \in { "noise", "generateColumn" }
    /\ \E index \in { biomeIndex(last.args[1]) } :
       \E biome \in (IF index \in 0..(biomeCount - 1) THEN { biomes[index + 1] } ELSE StrayBiomes) :
       \E height \in { columnHeight(biome, last.args[2], TerrainHeight) } :
           last' = Call("generateColumn", last.args,
                        columnWrites(biome, height, 0, 0, last.args[3], TerrainHeight),
                        TRUE, <<>>, <<>>)
    /\ UNCHANGED <<chunks, heap, lastPlayerChunk, frustum, GLOBAL_SEED, nEdits>>

\* generateTerrain on a whole chunk: the grid after the loops over all
\* columns.
GenerateChunk ==
    /\ last.op = "chunk"
    /\ \E inputs \in { [k \in 0..(CHUNK_SIZE * CHUNK_SIZE - 1) |->
                          [biome |-> biomes[last.args[1]], height |-> last.args[2],
                           tree |-> IF k \in last.args[3] THEN PerlinOne ELSE 0]] } :
           last' = Call("generateChunk", last.args,
                        generateColumns([c \in TerrainCells |-> Voxel(AIR)], inputs, 0,
                                        TerrainHeight),
                        TRUE, <<>>, <<>>)
    /\ UNCHANGED <<chunks, heap, lastPlayerChunk, frustum, GLOBAL_SEED, nEdits>>

\* interpolatedNoise at a sample coordinate: the cell and the fraction it
\* takes on each axis, and the value it returns.
InterpolatedNoise ==
    /\ last.op = "point"
    /\ last' = Call("interpolatedNoise", last.args,
                    << IntPart(last.args[1], last.args[3]), FracPart(last.args[1], last.args[3]),
                       IntPart(last.args[2], last.args[3]), FracPart(last.args[2], last.args[3]),
                       interpolatedNoise(last.args[1], last.args[2], last.args[3], GLOBAL_SEED) >>,
                    TRUE, <<>>, <<>>)
    /\ UNCHANGED <<chunks, heap, lastPlayerChunk, frustum, GLOBAL_SEED, nEdits>>

TerrainNext == BiomeIndex \/ ColumnWrites \/ GenerateColumn \/ GenerateChunk \/ InterpolatedNoise

TerrainSpec == TerrainInit /\ [][TerrainNext]_vars

\* C14: for every biome of the table, every clamped column height in
\* [1, CHUNK_HEIGHT - 1] and every tree-noise outcome, every assignment of
\* generateTerrain (column fill, trunk, canopy) has its indices inside the
\* grid: 0 <= x < CHUNK_SIZE, 0 <= y < CHUNK_HEIGHT, 0 <= z < CHUNK_SIZE.
C14_TerrainWritesInGrid ==
    last.op = "columnWrites" =>
        \A i \in DOMAIN last.ret : InGrid(last.ret[i], TerrainHeight)

\* C15: for every value the four-octave noise sum can return, the biome
\* index int((noise + 1) * 0.5 * biomeCount) % biomeCount lies in
\* [0, biomeCount), so the lookup never reads outside the biome table.
C15_BiomeIndexInTable ==
    last.op = "biomeIndex" => last.ret[2] \in 0..(biomeCount - 1)

\* C16: the generated terrain is a function of the chunk coordinate and the
\* seed only, that is of the noise values they determine: generating the
\* same column again yields the same voxels.
C16_TerrainIsAFunction ==
    [][ (last.op = "generateColumn" /\ last'.op = "generateColumn" /\ last'.args = last.args)
        => last'.ret = last.ret ]_vars

-----------------------------------------------------------------------------
(* Ownership of the Chunk objects                                           *)

\* The pointers of the map.
Owned == { chunks[c] : c \in DOMAIN chunks }

\* C17: the World exclusively owns its chunks. The map holds each live
\* Chunk under exactly one coordinate and never a pointer to a destroyed
\* one; a Chunk is destroyed only by update (unloadDistantChunks) or by the
\* destructor, once, in the step that takes it out of the map; after the
\* destructor no chunk remains live.
C17_WorldOwnsChunks ==
    [][ /\ { chunks'[c] : c \in DOMAIN chunks' } = DOMAIN heap'
        /\ \A c, d \in DOMAIN chunks' : chunks'[c] = chunks'[d] => c = d
        /\ \A p \in DOMAIN heap \ DOMAIN heap' :
               /\ last'.op \in { "update", "~InfiniteWorld" }
               /\ Cardinality({ c \in DOMAIN chunks : chunks[c] = p }) = 1
        /\ \A c \in DOMAIN chunks :
               (c \notin DOMAIN chunks' \/ chunks'[c] # chunks[c]) =>
                   chunks[c] \notin DOMAIN heap'
        /\ last'.destroyed = Cardinality(Owned \ DOMAIN heap')
        /\ last'.op = "~InfiniteWorld" => (DOMAIN heap' = {} /\ DOMAIN chunks' = {}) ]_vars

\* The destructor has run on a world that held chunks.
C17_Witness ==
    /\ last.op = "~InfiniteWorld"
    /\ last.destroyed > 2 * RENDER_DISTANCE + 1
    /\ DOMAIN heap = {}

-----------------------------------------------------------------------------
(* getChunk and the flags                                                   *)

\* Two chunk coordinates share an edge.
AxisAdjacent(a, b) == Abs(a.x - b.x) + Abs(a.z - b.z) = 1

\* C18: getChunk(coord) for a non-resident coordinate inserts a new chunk
\* with meshGenerated = false and meshDirty = true, sets meshDirty on every
\* resident axis-adjacent neighbour and touches no other chunk; for a
\* resident coordinate it returns that chunk and changes no flag and no voxel.
C18_GetChunkFlags ==
    [][ last'.op = "getChunk" =>
          LET coord == last'.args[1]
          IN  IF coord \in DOMAIN chunks
              THEN /\ last'.ret = chunks[coord]
                   /\ chunks' = chunks
                   /\ heap' = heap
              ELSE /\ DOMAIN chunks' = DOMAIN chunks \cup {coord}
                   /\ last'.ret = chunks'[coord]
                   /\ chunks'[coord] \notin DOMAIN heap
                   /\ DOMAIN heap' = DOMAIN heap \cup {chunks'[coord]}
                   /\ ~heap'[chunks'[coord]].meshGenerated
                   /\ heap'[chunks'[coord]].meshDirty
                   /\ \A c \in DOMAIN chunks :
                          /\ chunks'[c] = chunks[c]
                          /\ heap'[chunks[c]] =
                                 IF AxisAdjacent(c, coord)
                                 THEN [heap[chunks[c]] EXCEPT !.meshDirty = TRUE]
                                 ELSE heap[chunks[c]] ]_vars

\* getChunk has constructed a chunk next to a chunk that had been meshed,
\* which is now dirty, while a clean chunk elsewhere stayed clean.
C18_Witness ==
    /\ last.op = "getChunk" /\ last.created = 1 /\ nEdits = 0
    /\ \E c \in DOMAIN chunks :
           /\ AxisAdjacent(c, last.args[1])
           /\ heap[chunks[c]].meshGenerated /\ heap[chunks[c]].meshDirty
    /\ \E c \in DOMAIN chunks :
           /\ ~AxisAdjacent(c, last.args[1])
           /\ heap[chunks[c]].meshGenerated /\ ~heap[chunks[c]].meshDirty

-----------------------------------------------------------------------------
(* The unload margin                                                        *)

\* The chunks the observer of the model stands in.
CamChunks == { getCurrentChunkCoord(p[1], p[2]) : p \in CamPositions }

\* The map ch is what triggering updates at a and at b leave behind: every
\* coordinate within RENDER_DISTANCE of either is resident and nothing
\* resident lies beyond the unload distance of either.
Settled(ch, a, b) ==
    /\ \A x \in (-RENDER_DISTANCE)..RENDER_DISTANCE, z \in (-RENDER_DISTANCE)..RENDER_DISTANCE :
           /\ ChunkCoord(a.x + x, a.z + z) \in DOMAIN ch
           /\ ChunkCoord(b.x + x, b.z + z) \in DOMAIN ch
    /\ \A c \in DOMAIN ch :
           Distance(c, a) <= RENDER_DISTANCE + 2 /\ Distance(c, b) <= RENDER_DISTANCE + 2

\* C19: the unload margin prevents thrashing. When the observer alternates
\* between two adjacent chunk coordinates A and B, a triggering update at A
\* followed by one at B leaves the world settled, and from a settled world
\* every later update at A or B creates no chunk and destroys no chunk.
C19_NoThrashing ==
    [][ last'.op = "update" =>
          /\ ( /\ last.op = "update" /\ last.acted /\ last'.acted
               /\ Distance(last.args[1], last'.args[1]) = 1 )
             => Settled(chunks', last.args[1], last'.args[1])
          /\ \A a \in CamChunks, b \in CamChunks :
                 ( /\ Distance(a, b) = 1
                   /\ Settled(chunks, a, b)
                   /\ lastPlayerChunk \in {a, b}
                   /\ last'.args[1] \in {a, b} )
                 => /\ last'.created = 0
                    /\ last'.destroyed = 0
                    /\ Settled(chunks', a, b) ]_vars

\* The observer has crossed into the adjacent chunk and back: the last
\* update ran its reload and neither constructed nor destroyed a chunk.
C19_Witness ==
    /\ last.op = "update" /\ last.acted
    /\ last.created = 0 /\ last.destroyed = 0
    /\ \E a \in CamChunks :
           Distance(a, lastPlayerChunk) = 1 /\ Settled(chunks, a, lastPlayerChunk)

-----------------------------------------------------------------------------
(* The mask of generateFacesForDirection                                    *)

\* The cells <<axis, direction, i, j, d>> of all masks generateMesh fills.
MaskCells ==
    { <<axis, direction, i, j, d>> \in (0..2) \X {1, -1} \X (0..(Max(CHUNK_SIZE, CHUNK_HEIGHT) - 1))
                                       \X (0..(Max(CHUNK_SIZE, CHUNK_HEIGHT) - 1))
                                       \X (0..(Max(CHUNK_SIZE, CHUNK_HEIGHT) - 1)) :
          /\ i < dimensions[AxisU(axis)]
          /\ j < dimensions[AxisV(axis)]
          /\ d < dimensions[axis] }

\* The voxel type at position pos of the chunk object at p, solid meaning
\* type # AIR: the stored cell inside the chunk; outside it the cell of the
\* world, AIR when no chunk is resident there or y is outside the height range.
TypeAt(W, p, pos) ==
    IF InChunk(pos[0], pos[1], pos[2])
    THEN W.heap[p].voxels[<<pos[0], pos[1], pos[2]>>].type
    ELSE IF pos[1] < 0 \/ pos[1] >= CHUNK_HEIGHT THEN AIR
    ELSE getVoxelTypeAt(W, W.heap[p].coord.x * CHUNK_SIZE + pos[0], pos[1],
                        W.heap[p].coord.z * CHUNK_SIZE + pos[2])

\* C20 as stated: a mask cell is active, tagged with the voxel's type, if
\* and only if the voxel at depth d is solid and not water and the voxel at
\* depth d + direction is not solid, solid meaning type # AIR; positions
\* outside the chunk are resolved through the World.
C20_MaskCellSolidRule ==
    last.op = "render" =>
        \A m \in MaskCells :
            LET current == TypeAt(Here, chunks[MeshCentre], PosOf(m[1], m[3], m[4], m[5]))
                adjacent == TypeAt(Here, chunks[MeshCentre], PosOf(m[1], m[3], m[4], m[5] + m[2]))
            IN  MaskCell(Here, chunks[MeshCentre], m[1], m[2], m[3], m[4], m[5]) =
                    (IF current # AIR /\ current # WATER /\ ~(adjacent # AIR)
                     THEN current ELSE AIR)

\* C20 amended: a mask cell is active, tagged with the voxel's type, if and
\* only if the voxel at depth d is neither AIR nor WATER, the voxel at depth
\* d + direction is AIR or WATER, and the cell is not a downward face
\* (axis 1, direction -1) of the layer y = 0; positions outside the chunk are
\* resolved through the World's getVoxelTypeAt and read AIR when it finds no
\* resident chunk or y is outside the height range.
C20_MaskCellRule ==
    last.op = "render" =>
        \A m \in MaskCells :
            LET pos == PosOf(m[1], m[3], m[4], m[5])
                current == TypeAt(Here, chunks[MeshCentre], pos)
                adjacent == TypeAt(Here, chunks[MeshCentre], PosOf(m[1], m[3], m[4], m[5] + m[2]))
            IN  MaskCell(Here, chunks[MeshCentre], m[1], m[2], m[3], m[4], m[5]) =
                    (IF /\ current # AIR /\ current # WATER
                        /\ adjacent = AIR \/ adjacent = WATER
                        /\ ~(m[1] = 1 /\ m[2] = -1 /\ pos[1] = 0)
                     THEN current ELSE AIR)

\* generateMesh has filled its masks on a chunk where a STONE voxel touches
\* a WATER voxel inside the chunk and the neighbour chunks are resident and
\* all WATER.
C20_Witness ==
    /\ last.op = "render"
    /\ heap[chunks[MeshCentre]].meshGenerated
    /\ MeshNeighbours \subseteq DOMAIN chunks
    /\ \A n \in MeshNeighbours : heap[chunks[n]].voxels[<<0, 0, 0>>].type = WATER
    /\ heap[chunks[MeshCentre]].voxels[<<0, 1, 0>>].type = WATER
    /\ heap[chunks[MeshCentre]].voxels[<<1, 1, 0>>].type = STONE
    /\ Len(heap[chunks[MeshCentre]].vertices) > 0

-----------------------------------------------------------------------------
(* The floor rule                                                           *)

\* C21: generateMesh never emits a downward-facing quad (normal (0,-1,0))
\* covering a voxel of the layer y = 0, whatever the voxel configuration, and
\* every other face of a voxel of that layer is emitted exactly when the
\* voxel is solid and not water and the cell across the face is air or water.
C21_NoFloorFaces ==
    last.op = "render" =>
        LET p == chunks[MeshCentre]
            faces == UnitFacesOf(heap[p].vertices, heap[p].worldPosition)
        IN  /\ \A f \in faces : ~(f[1] = 1 /\ f[2] = -1 /\ f[4] = 0)
            /\ \A c \in { c \in Cells : c[2] = 0 } :
               \A axis \in 0..2, direction \in {1, -1} :
                   ~(axis = 1 /\ direction = -1) =>
                       ( (\E f \in faces : /\ f[1] = axis /\ f[2] = direction
                                           /\ <<f[3], f[4], f[5]>> = c)
                         <=> LET current == TypeAt(Here, p, [a \in 0..2 |-> c[a + 1]])
                                 adjacent == TypeAt(Here, p,
                                     [a \in 0..2 |-> c[a + 1] + (IF a = axis THEN direction ELSE 0)])
                             IN  /\ current # AIR /\ current # WATER
                                 /\ adjacent = AIR \/ adjacent = WATER )

\* generateMesh has run on a chunk with a STONE voxel in the layer y = 0
\* whose side and top faces were emitted.
C21_Witness ==
    /\ last.op = "render"
    /\ LET p == chunks[MeshCentre]
           faces == UnitFacesOf(heap[p].vertices, heap[p].worldPosition)
       IN  /\ heap[p].voxels[<<0, 0, 0>>].type = STONE
           /\ \E f \in faces : f[1] = 1 /\ f[2] = 1 /\ <<f[3], f[4], f[5]>> = <<0, 0, 0>>
           /\ \E f \in faces : f[1] = 0 /\ f[2] = -1 /\ <<f[3], f[4], f[5]>> = <<0, 0, 0>>

-----------------------------------------------------------------------------
(* Winding of the emitted triangles                                         *)

\* The cross product a x b of two vectors <<x, y, z>>.
Cross(a, b) ==
    << a[2] * b[3] - a[3] * b[2], a[3] * b[1] - a[1] * b[3], a[1] * b[2] - a[2] * b[1] >>

\* The geometric normal (b - a) x (c - a) of the triangle (a, b, c).
TriangleNormal(a, b, c) ==
    Cross(<<b[1] - a[1], b[2] - a[2], b[3] - a[3]>>, <<c[1] - a[1], c[2] - a[2], c[3] - a[3]>>)

\* n is a positive multiple of the vector normal.
PositiveMultiple(n, normal) ==
    /\ Cross(n, normal) = <<0, 0, 0>>
    /\ n[1] * normal[1] + n[2] * normal[2] + n[3] * normal[3] > 0

\* C22: for every quad emitted by addOptimizedQuad, for all three axes and
\* both directions, both triangles are wound so that their geometric normal
\* (b - a) x (c - a) is a positive multiple of the emitted face normal, the
\* unit vector along axis * direction.
C22_WindingAgreesWithNormal ==
    last.op = "render" =>
        LET vertices == heap[chunks[MeshCentre]].vertices
        IN  \A t \in 0..((Len(vertices) \div 3) - 1) :
                PositiveMultiple(TriangleNormal(vertices[3 * t + 1].position,
                                                vertices[3 * t + 2].position,
                                                vertices[3 * t + 3].position),
                                 vertices[3 * t + 1].normal)

-----------------------------------------------------------------------------
(* The greedy merge of one layer                                            *)

\* The layers <<axis, direction, d>> generateMesh scans.
Layers ==
    { l \in (0..2) \X {1, -1} \X (0..(Max(CHUNK_SIZE, CHUNK_HEIGHT) - 1)) : l[3] < dimensions[l[1]] }

\* The scan of the layer l of the centre chunk: the filled mask and what
\* the scan loop made of it.
LayerScan(l) ==
    LET p == chunks[MeshCentre]
        filled == FillMask(Here, p, l[1], l[2], l[3])
    IN  [filled |-> filled,
         scan |-> ScanMask(heap[p].worldPosition, filled, l[1], l[2], l[3], 0, 0, <<>>, <<>>)]

\* The mask cells <<i, j>> of the rectangle q = <<i, j, width, height, voxelType>>.
RectCells(q) == (q[1]..(q[1] + q[3] - 1)) \X (q[2]..(q[2] + q[4] - 1))

\* C23: within one depth layer of one axis/direction, the rectangles the
\* greedy merge emits are pairwise disjoint, every cell of an emitted
\* rectangle was active in the filled mask with the voxel type of the
\* rectangle's start cell, every active cell lies in exactly one rectangle,
\* and after the scan the mask is entirely cleared.
C23_GreedyMergePartitionsMask ==
    last.op = "render" =>
        \A l \in Layers :
            LET du == dimensions[AxisU(l[1])]
                dv == dimensions[AxisV(l[1])]
                r == LayerScan(l)
                quads == r.scan.quads
            IN  /\ \A m \in DOMAIN quads, n \in DOMAIN quads :
                       m # n => RectCells(quads[m]) \cap RectCells(quads[n]) = {}
                /\ \A m \in DOMAIN quads :
                       /\ r.filled[quads[m][2] * du + quads[m][1]] = quads[m][5]
                       /\ quads[m][5] # AIR
                       /\ \A c \in RectCells(quads[m]) :
                              /\ c[1] < du /\ c[2] < dv
                              /\ r.filled[c[2] * du + c[1]] = quads[m][5]
                /\ \A i \in 0..(du - 1), j \in 0..(dv - 1) :
                       r.filled[j * du + i] # AIR =>
                           Cardinality({ m \in DOMAIN quads : <<i, j>> \in RectCells(quads[m]) }) = 1
                /\ \A k \in DOMAIN r.scan.mask : r.scan.mask[k] = AIR

\* generateMesh has scanned a layer whose mask the merge split into several
\* rectangles, one of them wider and taller than a cell.
C23_Witness ==
    /\ last.op = "render"
    /\ heap[chunks[MeshCentre]].meshGenerated
    /\ \E l \in Layers :
           LET quads == LayerScan(l).scan.quads
           IN  /\ Len(quads) >= 2
               /\ \E m \in DOMAIN quads : quads[m][3] > 1 /\ quads[m][4] > 1
               /\ \E m \in DOMAIN quads, n \in DOMAIN quads : quads[m][5] # quads[n][5]

-----------------------------------------------------------------------------
(* Trees of a generated chunk                                               *)

\* The canopy cells of a tree stamped at column (x, z) with base height h
\* that lie within the chunk's x/z extents.
CanopyCells(x, z, h) ==
    { <<x + dx, h + dy, z + dz>> : <<dx, dz, dy>> \in
          { o \in ((-2)..2) \X ((-2)..2) \X (3..5) :
                /\ Abs(o[1]) + Abs(o[2]) + (o[3] - 3) < 5
                /\ x + o[1] \in 0..(CHUNK_SIZE - 1)
                /\ z + o[2] \in 0..(CHUNK_SIZE - 1) } }

\* C24: after generateTerrain completes, for every column (x, z) where a
\* tree was stamped at base height h, every canopy cell within the chunk's
\* x/z extents holds LEAVES or a tree voxel of another tree: the fill of the
\* columns processed later has not overwritten the canopy.
C24_CanopySurvives ==
    last.op = "generateChunk" =>
        \A k \in last.args[3] :
            treeStamped(biomes[last.args[1]], last.args[2], PerlinOne, TerrainHeight) =>
                \A c \in CanopyCells(k \div CHUNK_SIZE, k % CHUNK_SIZE, last.args[2]) :
                    last.ret[c].type \in {LEAVES, LOG}

-----------------------------------------------------------------------------
(* The fill of a column                                                     *)

\* C25: the per-column fill of generateTerrain, for a biome b and a clamped
\* height h in [1, CHUNK_HEIGHT - 1], assigns b.filler to y < h - 5,
\* b.subsurface to h - 5 <= y < h - 1, b.surface to y = h - 1, and for y >= h
\* WATER when y < 15 and b.surface is not SAND, otherwise AIR.
C25_ColumnFill ==
    last.op = "columnWrites" =>
        LET b == biomes[last.args[1]]
            h == last.args[2]
        IN  /\ h \in 1..(TerrainHeight - 1)
            /\ Len(last.ret) >= TerrainHeight
            /\ \A y \in 0..(TerrainHeight - 1) :
                   /\ last.ret[y + 1].x = last.args[4]
                   /\ last.ret[y + 1].y = y
                   /\ last.ret[y + 1].z = last.args[5]
                   /\ y < h - 5 => last.ret[y + 1].voxel.type = b.filler
                   /\ (h - 5 <= y /\ y < h - 1) => last.ret[y + 1].voxel.type = b.subsurface
                   /\ y = h - 1 => last.ret[y + 1].voxel.type = b.surface
                   /\ (y >= h /\ y < 15 /\ b.surface # SAND) => last.ret[y + 1].voxel.type = WATER
                   /\ (y >= h /\ ~(y < 15 /\ b.surface # SAND)) => last.ret[y + 1].voxel.type = AIR
                   /\ last.ret[y + 1].voxel.isActive = (last.ret[y + 1].voxel.type # AIR)

\* A Plains column of height 8 has been filled: filler, subsurface, surface,
\* WATER up to the sea level and AIR above it.
C25_Witness ==
    /\ last.op = "columnWrites"
    /\ biomes[last.args[1]].name = "Plains" /\ last.args[2] = 8
    /\ last.ret[1].voxel.type = STONE
    /\ last.ret[4].voxel.type = DIRT
    /\ last.ret[8].voxel.type = GRASS
    /\ last.ret[9].voxel.type = WATER
    /\ last.ret[16].voxel.type = AIR

-----------------------------------------------------------------------------
(* The frustum on its own: update on a matrix, then box tests.              *)

\* Rows of the matrices passed to update.
MatrixRows ==
    { <<0, 0, 0, 0>>, <<2, 0, 0, 0>>, <<0, 2, 0, -2>>, <<0, 0, 2, 0>>, <<3, 4, 0, 0>>,
      <<0, 0, 0, 2>>, <<0, 0, 0, 4>>, <<0, 0, 0, -2>> }

\* The six plane equations derived from the rows of viewProj, before the
\* normalisation: Left, Right, Bottom, Top, Near, Far.
DerivedPlanes(viewProj) ==
    << VAdd(viewProj[4], viewProj[1]), VSub(viewProj[4], viewProj[1]),
       VAdd(viewProj[4], viewProj[2]), VSub(viewProj[4], viewProj[2]),
       VAdd(viewProj[4], viewProj[3]), VSub(viewProj[4], viewProj[3]) >>

\* The matrices whose planes have a whole length that divides their scaled
\* components.
FrustumMatrices ==
    { m \in MatrixRows \X MatrixRows \X MatrixRows \X MatrixRows :
          \A i \in 1..6 :
              LET plane == DerivedPlanes(m)[i]
                  length == PlaneLength(plane)
              IN  /\ length * length =
                         plane[1] * plane[1] + plane[2] * plane[2] + plane[3] * plane[3]
                  /\ length > 0 => \A k \in 1..4 : (plane[k] * PlaneOne) % length = 0 }

\* The boxes <<min, max>> passed to isBoxVisible, min <= max componentwise.
Boxes ==
    { << <<x[1], y[1], z[1]>>, <<x[2], y[2], z[2]>> >> :
          <<x, y, z>> \in { <<-3, -1>>, <<-1, 1>>, <<1, 1>> } \X { <<-3, -1>>, <<-1, 1>>, <<1, 1>> }
                            \X { <<-3, -1>>, <<-1, 1>>, <<1, 1>> } }

FrustumInit ==
    /\ chunks = <<>>
    /\ heap = <<>>
    /\ lastPlayerChunk = ChunkCoord(0, 0)
    /\ frustum = frustumUpdate(ZeroView)
    /\ GLOBAL_SEED = 0
    /\ nEdits = 0
    /\ \E viewProj \in FrustumMatrices :
           last = Call("matrix", <<viewProj>>, <<>>, FALSE, <<>>, <<>>)

\* frustum.update(viewProj)
FrustumUpdate ==
    /\ last.op = "matrix"
    /\ frustum' = frustumUpdate(last.args[1])
    /\ last' = Call("frustum.update", last.args, <<>>, TRUE, <<>>, <<>>)
    /\ UNCHANGED <<chunks, heap, lastPlayerChunk, GLOBAL_SEED, nEdits>>

\* frustum.isBoxVisible(min, max)
IsBoxVisible ==
    /\ last.op \in { "frustum.update", "isBoxVisible" }
    /\ \E box \in Boxes :
           last' = Call("isBoxVisible", box, <<isBoxVisible(frustum, box[1], box[2])>>, TRUE,
                        <<>>, <<>>)
    /\ UNCHANGED <<chunks, heap, lastPlayerChunk, frustum, GLOBAL_SEED, nEdits>>

FrustumNext == FrustumUpdate \/ IsBoxVisible

FrustumSpec == FrustumInit /\ [][FrustumNext]_vars

\* The eight corners of the box <<min, max>>.
BoxCorners(min, max) == {min[1], max[1]} \X {min[2], max[2]} \X {min[3], max[3]}

\* The points of the box <<min, max>> with whole coordinates.
BoxPoints(min, max) == (min[1]..max[1]) \X (min[2]..max[2]) \X (min[3]..max[3])

\* The signed distance n.p + w of the point p from a plane, in plane units.
SignedDistance(plane, p) == plane[1] * p[1] + plane[2] * p[2] + plane[3] * p[3] + plane[4]

C27_UpdateNormalizesPlanes ==
    last.op = "frustum.update" =>
        LET viewProj == last.args[1]
            derived == << VAdd(viewProj[4], viewProj[1]), VSub(viewProj[4], viewProj[1]),
                          VAdd(viewProj[4], viewProj[2]), VSub(viewProj[4], viewProj[2]),
                          VAdd(viewProj[4], viewProj[3]), VSub(viewProj[4], viewProj[3]) >>
        IN  \A i \in 1..6 :
                IF derived[i][1] = 0 /\ derived[i][2] = 0 /\ derived[i][3] = 0
                THEN \A k \in 1..4 : frustum[i][k] = derived[i][k] * PlaneOne
                ELSE /\ frustum[i][1] * frustum[i][1] + frustum[i][2] * frustum[i][2]
                            + frustum[i][3] * frustum[i][3] = PlaneOne * PlaneOne
                     /\ \A j \in 1..4, k \in 1..4 :
                            frustum[i][j] * derived[i][k] = frustum[i][k] * derived[i][j]
                     /\ \A k \in 1..4 : frustum[i][k] * derived[i][k] >= 0

\* update has run on a matrix giving a plane with no directional part and a
\* non-zero w, and a plane of length 5.
C27_Witness ==
    /\ last.op = "frustum.update"
    /\ \E i \in 1..6 : frustum[i] = <<0, 0, 0, 2 * PlaneOne>>
    /\ \E i \in 1..6 : /\ frustum[i][1] = (3 * PlaneOne) \div 5
                       /\ frustum[i][2] = (4 * PlaneOne) \div 5
                       /\ frustum[i][4] # 0

-----------------------------------------------------------------------------
(* World and local coordinates                                              *)

\* World columns around the origin, on both sides of chunk borders, and
\* around the first column past the exact float range.
WorldColumns ==
    { -CHUNK_SIZE - 1, -CHUNK_SIZE, -1, 0, CHUNK_SIZE - 1, CHUNK_SIZE,
      FarColumn - 1, FarColumn, -FarColumn }

\* C28: the translation between world and local coordinates is a
\* floor-division round trip. For every world coordinate w, negative ones
\* included, the World computes the chunk c = floor(w / CHUNK_SIZE) and the
\* local coordinate l = w - c * CHUNK_SIZE with 0 <= l < CHUNK_SIZE, the
\* inverse of the mapping coord * CHUNK_SIZE + local of Chunk::getVoxelTypeAt;
\* so a chunk's query at local x = -1 or x = CHUNK_SIZE (likewise z) reads
\* the facing edge voxel of the adjacent chunk.
C28_FloorDivisionRoundTrip ==
    /\ \A w \in WorldColumns :
           LET chunkX == FloorDivChunk(w)
               localX == w - chunkX * CHUNK_SIZE
           IN  /\ chunkX * CHUNK_SIZE <= w /\ w < (chunkX + 1) * CHUNK_SIZE
               /\ 0 <= localX /\ localX < CHUNK_SIZE
               /\ chunkX * CHUNK_SIZE + localX = w
    /\ \A coord \in DOMAIN chunks, y \in 0..(CHUNK_HEIGHT - 1), k \in 0..(CHUNK_SIZE - 1) :
           /\ ChunkCoord(coord.x - 1, coord.z) \in DOMAIN chunks =>
                  chunkGetVoxelTypeAt(Here, chunks[coord], -1, y, k) =
                      heap[chunks[ChunkCoord(coord.x - 1, coord.z)]].voxels[<<CHUNK_SIZE - 1, y, k>>].type
           /\ ChunkCoord(coord.x + 1, coord.z) \in DOMAIN chunks =>
                  chunkGetVoxelTypeAt(Here, chunks[coord], CHUNK_SIZE, y, k) =
                      heap[chunks[ChunkCoord(coord.x + 1, coord.z)]].voxels[<<0, y, k>>].type
           /\ ChunkCoord(coord.x, coord.z - 1) \in DOMAIN chunks =>
                  chunkGetVoxelTypeAt(Here, chunks[coord], k, y, -1) =
                      heap[chunks[ChunkCoord(coord.x, coord.z - 1)]].voxels[<<k, y, CHUNK_SIZE - 1>>].type
           /\ ChunkCoord(coord.x, coord.z + 1) \in DOMAIN chunks =>
                  chunkGetVoxelTypeAt(Here, chunks[coord], k, y, CHUNK_SIZE) =
                      heap[chunks[ChunkCoord(coord.x, coord.z + 1)]].voxels[<<k, y, 0>>].type

-----------------------------------------------------------------------------
(* The cells of the interpolation                                           *)

\* C29: for every sample coordinate (x, z), negative coordinates included,
\* interpolatedNoise uses the four integer cells enclosing the point,
\* (floor(x), floor(x) + 1) x (floor(z), floor(z) + 1), with fractional
\* weights fracX, fracZ in [0, 1), so its result is a convex combination of
\* those four cell values.
C29_InterpolationUsesEnclosingCells ==
    last.op = "interpolatedNoise" =>
        LET den == last.args[3]
            floorX == last.args[1] \div den
            floorZ == last.args[2] \div den
            values == { smoothNoise(cx, cz, GLOBAL_SEED) :
                            cx \in {floorX, floorX + 1}, cz \in {floorZ, floorZ + 1} }
        IN  /\ last.ret[1] = floorX /\ last.ret[3] = floorZ
            /\ 0 <= last.ret[2] /\ last.ret[2] < den
            /\ 0 <= last.ret[4] /\ last.ret[4] < den
            /\ \E v \in values : v <= last.ret[5]
            /\ \E v \in values : last.ret[5] <= v

-----------------------------------------------------------------------------
(* Indices into the mask                                                    *)

\* The mask indices the scan uses for the rectangle q = <<i, j, width,
\* height, voxelType>> of a layer of du x dv cells: the start cell, the
\* cells tested while the width and the height grow, and the cells cleared.
MaskIndices(q, du, dv) ==
    { q[2] * du + k : k \in q[1]..Min(q[1] + q[3], du - 1) }
    \cup { k * du + l : k \in (q[2] + 1)..Min(q[2] + q[4], dv - 1), l \in q[1]..(q[1] + q[3] - 1) }
    \cup { (q[2] + b) * du + (q[1] + a) : a \in 0..(q[3] - 1), b \in 0..(q[4] - 1) }

\* C30: in generateFacesForDirection, for every axis, every depth layer and
\* every step of the mask fill, the width growth, the height growth and the
\* clearing, the mask index k * dimensions[u] + l lies in
\* [0, CHUNK_SIZE * CHUNK_HEIGHT), and every merged rectangle satisfies
\* i + width <= dimensions[u] and j + height <= dimensions[v].
C30_MaskIndicesInBounds ==
    last.op = "render" =>
        \A l \in Layers :
            LET du == dimensions[AxisU(l[1])]
                dv == dimensions[AxisV(l[1])]
                quads == LayerScan(l).scan.quads
            IN  /\ \A i \in 0..(du - 1), j \in 0..(dv - 1) :
                       j * du + i \in 0..(CHUNK_SIZE * CHUNK_HEIGHT - 1)
                /\ \A m \in DOMAIN quads :
                       /\ quads[m][1] >= 0 /\ quads[m][2] >= 0
                       /\ quads[m][3] >= 1 /\ quads[m][4] >= 1
                       /\ quads[m][1] + quads[m][3] <= du
                       /\ quads[m][2] + quads[m][4] <= dv
                       /\ \A k \in MaskIndices(quads[m], du, dv) :
                              k \in 0..(CHUNK_SIZE * CHUNK_HEIGHT - 1)

\* generateMesh has merged a rectangle that reaches the last row and the
\* last column of a layer of the Y axis, and in another layer several
\* rectangles that end before them.
C30_Witness ==
    /\ last.op = "render"
    /\ heap[chunks[MeshCentre]].meshGenerated
    /\ \E l \in Layers :
           LET quads == LayerScan(l).scan.quads
           IN  /\ l[1] = 1
               /\ \E m \in DOMAIN quads :
                      /\ quads[m][3] > 1 /\ quads[m][4] > 1
                      /\ quads[m][1] + quads[m][3] = dimensions[AxisU(l[1])]
                      /\ quads[m][2] + quads[m][4] = dimensions[AxisV(l[1])]
    /\ \E l \in Layers :
           LET quads == LayerScan(l).scan.quads
           IN  /\ Len(quads) >= 2
               /\ \A m \in DOMAIN quads : quads[m][1] + quads[m][3] < dimensions[AxisU(l[1])]

====
